---- MODULE Spec2Model ----
(***************************************************************************)
(* Baseline / anomaly detector and correlation discoverer of the health    *)
(* aggregator backend (services/anomaly_detection.py,                      *)
(* services/correlation_engine.py, services/data_ingestion.py, main.py).   *)
(*                                                                         *)
(* Numbers: metric values are integers.  Baseline mean and std_dev are     *)
(* kept in hundredths (the code rounds both to 2 decimals),                *)
(* deviation_percent in tenths (rounded to 1 decimal).  Comparisons of the *)
(* z-score with a threshold are done by cross-multiplication, in exact     *)
(* arithmetic.                                                             *)
(***************************************************************************)
EXTENDS Integers, Sequences, FiniteSets, TLC

(***************************************************************************)
(* Bounds of the explored inputs.                                          *)
(***************************************************************************)
\* number of free records at the end of a generated record set
TailLen == 5
\* number of times the record store is rewritten
MaxStoreChanges == 1
\* largest limit argument of a listing, apart from the handler's default
MaxLimit == 3
\* largest days argument of the timeline
MaxDays == 3
\* how many days the clock may be ahead of the last record
MaxClockLead == 8

(***************************************************************************)
(* Program constants.                                                      *)
(***************************************************************************)
MinRecords == 14
MinSamples == 7
MaxBaselineDays == 60
BaselinePercent == 66
ScanWindow == 30
\* THRESHOLDS, in tenths of a standard deviation
InfoZ10 == 15
WarningZ10 == 20
CriticalZ10 == 25
\* escalation run lengths
\* limit of GET /api/anomalies when none is given
DefaultLimit == 20
\* limit of GET /api/correlations when none is given
DefaultCorrelations == 10

\* calculate_health_score_detailed
ScoreDays == 7
CriticalWeight == 15
WarningWeight == 8
InfoWeight == 3
AlertPenalty == 10
ComponentWeight100 == 25
DeductionWeight10 == 3

InfoEscalateDays == 3
WarningEscalateDays == 5

Metrics ==
  {"sleep_duration", "sleep_quality", "resting_hr", "hrv", "steps",
   "stress_score", "energy_level"}

\* the order in which _check_record_for_anomalies checks the metrics
ScanOrder == <<"sleep_duration", "resting_hr", "hrv", "steps", "stress_score">>

\* metric_type_mapping of _calculate_baselines
BaselineMetricType(m) ==
  CASE m = "sleep_duration" -> "sleep"
    [] m = "sleep_quality"  -> "sleep"
    [] m = "resting_hr"     -> "heart_rate"
    [] m = "hrv"            -> "heart_rate"
    [] m = "steps"          -> "steps"
    [] m = "stress_score"   -> "stress"
    [] m = "energy_level"   -> "energy"
    [] OTHER                -> "sleep"

\* metric_type_mapping of _check_metric (no entry for sleep_quality)
AlertMetricType(m) ==
  CASE m = "sleep_duration" -> "sleep"
    [] m = "resting_hr"     -> "heart_rate"
    [] m = "hrv"            -> "heart_rate"
    [] m = "steps"          -> "steps"
    [] m = "stress_score"   -> "stress"
    [] m = "energy_level"   -> "energy"
    [] OTHER                -> "sleep"

(***************************************************************************)
(* Optional values: <<>> is an absent field (None), <<x>> a present one.   *)
(***************************************************************************)
Absent == <<>>
Some(x) == <<x>>

\* Python truthiness of record.get(...).get(field): absent and 0 are falsy
Truthy(o) == o # <<>> /\ o[1] # 0

\* the value of a metric in a record (nested category / field lookup)
Field(record, m) == record.v[m]

(***************************************************************************)
(* Dates.  A date string of the year 2025 is [mo |-> month, dd |-> day,    *)
(* pad |-> whether month and day are written with two digits]; a datetime  *)
(* is the day of that year.                                                *)
(***************************************************************************)
DaysInMonth == <<31, 28, 31, 30, 31, 30, 31, 31, 30, 31, 30, 31>>
DaysBefore == <<0, 31, 59, 90, 120, 151, 181, 212, 243, 273, 304, 334>>

\* strptime raises ValueError on other strings
ValidDate(ds) == ds.mo \in 1..12 /\ ds.dd \in 1..DaysInMonth[ds.mo]

\* datetime.strptime(s, "%Y-%m-%d"), defined when ValidDate(s); one-digit
\* months and days are accepted
strptime(ds) == DaysBefore[ds.mo] + ds.dd

\* datetime.strftime("%Y-%m-%d") of a day of the year: always two digits
strftime(t) ==
  LET mo == CHOOSE x \in 1..12 :
              DaysBefore[x] < t /\ t <= DaysBefore[x] + DaysInMonth[x]
  IN  [mo |-> mo, dd |-> t - DaysBefore[mo], pad |-> TRUE]

(***************************************************************************)
(* Arithmetic helpers.                                                     *)
(***************************************************************************)
Abs(x) == IF x < 0 THEN -x ELSE x
Min(a, b) == IF a <= b THEN a ELSE b
Max(a, b) == IF a >= b THEN a ELSE b

RECURSIVE Sum(_)
Sum(s) == IF s = <<>> THEN 0 ELSE s[1] + Sum(Tail(s))

RECURSIVE SumSq(_)
SumSq(s) == IF s = <<>> THEN 0 ELSE s[1] * s[1] + SumSq(Tail(s))

\* floor of the square root, by bisection on lo*lo <= x < hi*hi
RECURSIVE IsqrtIn(_, _, _)
IsqrtIn(x, lo, hi) ==
  IF hi - lo <= 1 THEN lo
  ELSE LET mid == (lo + hi) \div 2
       IN  IF mid * mid <= x THEN IsqrtIn(x, mid, hi) ELSE IsqrtIn(x, lo, mid)

Isqrt(x) == IsqrtIn(x, 0, 46341)

\* round(num / den) for den > 0, ties to even, as Python's round()
RoundDiv(num, den) ==
  LET q == num \div den
      r == num - q * den
  IN  IF 2 * r < den THEN q
      ELSE IF 2 * r > den THEN q + 1
      ELSE IF q % 2 = 0 THEN q ELSE q + 1

\* round(statistics.mean(values), 2), in hundredths
Mean100(values) == RoundDiv(100 * Sum(values), Len(values))

\* round(statistics.stdev(values), 2), in hundredths: the sample standard
\* deviation sqrt(Q / (n (n - 1))) with Q = n * sum(x^2) - sum(x)^2
Std100(values) ==
  LET n == Len(values)
      Q == n * SumSq(values) - Sum(values) * Sum(values)
  IN  IF n > 1 THEN (Isqrt((40000 * Q) \div (n * (n - 1))) + 1) \div 2 ELSE 0

(***************************************************************************)
(* _calculate_baselines                                                    *)
(***************************************************************************)
\* the truthy values of metric m in the records, in order
RECURSIVE TruthyValues(_, _)
TruthyValues(records, m) ==
  IF records = <<>> THEN <<>>
  ELSE LET rest == TruthyValues(Tail(records), m)
       IN  IF Truthy(Field(Head(records), m))
           THEN <<Field(Head(records), m)[1]>> \o rest
           ELSE rest

\* baseline_period = min(60, int(len(records) * 0.66))
BaselinePeriod(n) == Min(MaxBaselineDays, (n * BaselinePercent) \div 100)

BaselineRecords(records) == SubSeq(records, 1, BaselinePeriod(Len(records)))

MakeBaseline(m, values) ==
  [metric_type |-> BaselineMetricType(m),
   mean        |-> Mean100(values),
   std_dev     |-> Std100(values),
   sample_days |-> Len(values)]

\* the metrics that get a (new) baseline from these records
Baselined(records) ==
  IF Len(records) < MinRecords THEN {}
  ELSE {m \in Metrics :
          Len(TruthyValues(BaselineRecords(records), m)) >= MinSamples}

\* self._baselines after _calculate_baselines, given its value before:
\* entries are added or overwritten, none is removed
CalculateBaselines(records, old) ==
  LET new == Baselined(records)
  IN  [m \in (DOMAIN old) \cup new |->
         IF m \in new
         THEN MakeBaseline(m, TruthyValues(BaselineRecords(records), m))
         ELSE old[m]]

NoBaselines == [m \in {} |-> 0]

(***************************************************************************)
(* _check_metric                                                           *)
(***************************************************************************)
\* z_score >= t10 / 10, with z_score = |value - mean| / std_dev
ZAtLeastUnscaled(value, b, t10) == 10 * Abs(100 * value - b.mean) >= t10 * 100
ZAtLeast(value, b, t10) == 10 * Abs(100 * value - b.mean) >= t10 * b.std_dev

\* the severity of the z-score alone
RawSeverityStrict(value, b) ==
  IF 10 * Abs(100 * value - b.mean) > CriticalZ10 * b.std_dev THEN "critical"
  ELSE IF 10 * Abs(100 * value - b.mean) > WarningZ10 * b.std_dev
       THEN "warning"
  ELSE "info"
RawSeverity(value, b) ==
  IF ZAtLeast(value, b, CriticalZ10) THEN "critical"
  ELSE IF ZAtLeast(value, b, WarningZ10) THEN "warning"
  ELSE "info"

\* the escalation policy
EscalateLate(severity, consecutive_days) ==
  IF consecutive_days > InfoEscalateDays /\ severity = "info" THEN "warning"
  ELSE IF consecutive_days > WarningEscalateDays /\ severity = "warning"
       THEN "critical"
  ELSE severity
\* the two rules applied one after the other ("if" in place of "elif" at
\* line 191): an info day escalated to warning is escalated again
EscalateTwice(severity, consecutive_days) ==
  LET first == IF consecutive_days >= InfoEscalateDays /\ severity = "info"
               THEN "warning" ELSE severity
  IN  IF consecutive_days >= WarningEscalateDays /\ first = "warning"
      THEN "critical" ELSE first
Escalate(severity, consecutive_days) ==
  IF consecutive_days >= InfoEscalateDays /\ severity = "info" THEN "warning"
  ELSE IF consecutive_days >= WarningEscalateDays /\ severity = "warning"
       THEN "critical"
  ELSE severity

\* round(((value - mean) / mean) * 100, 1), in tenths of a percent
DeviationOfValue10(value, b) ==
  RoundDiv(1000 * (100 * value - b.mean), 100 * value)
DeviationPercent10(value, b) ==
  IF b.mean > 0 THEN RoundDiv(1000 * (100 * value - b.mean), b.mean)
  ELSE -RoundDiv(1000 * (100 * value - b.mean), -b.mean)

\* line 175: a zero standard deviation cannot be evaluated
SkipNever(b) == FALSE
ZeroStd(b) == b.std_dev = 0

\* line 181: the tracker after a non-anomalous value
TrackerKept(tracker, m) == tracker
TrackerReset(tracker, m) == [tracker EXCEPT ![m] = 0]

\* The outcome of one _check_metric call: whether it raised
\* (ZeroDivisionError at the deviation_percent division), the tracker after
\* the call, and the alert returned (<<>> for None).
CheckMetric(m, value, record_date, tracker, bl) ==
  LET b == bl[m]
      days == tracker[m] + 1
  IN  IF ZeroStd(b)
      THEN [raised |-> FALSE, tracker |-> tracker, alert |-> <<>>]
      ELSE IF ~ZAtLeast(value, b, InfoZ10)
      THEN [raised |-> FALSE, tracker |-> TrackerReset(tracker, m),
            alert |-> <<>>]
      ELSE IF b.mean = 0
      THEN [raised |-> TRUE, tracker |-> [tracker EXCEPT ![m] = days],
            alert |-> <<>>]
      ELSE [raised |-> FALSE, tracker |-> [tracker EXCEPT ![m] = days],
            alert |-> <<[timestamp        |-> record_date,
                         severity         |-> Escalate(RawSeverity(value, b), days),
                         metric_type      |-> AlertMetricType(m),
                         title            |-> m,
                         current_value    |-> value,
                         baseline_value   |-> b.mean,
                         deviation_percent |-> DeviationPercent10(value, b),
                         consecutive_days |-> days]>>]

\* the guard of one metric block of _check_record_for_anomalies
Checked(record, m, bl) == Truthy(Field(record, m)) /\ m \in DOMAIN bl

(***************************************************************************)
(* _detect_anomalies: helpers                                              *)
(***************************************************************************)
\* the scan window: records[-30:]
AllRecords(records) == records
RecentRecords(records) ==
  SubSeq(records, Max(1, Len(records) - ScanWindow + 1), Len(records))

\* list.sort(key = timestamp, reverse = True): a stable sort, so alerts of
\* equal timestamp keep their relative order.  InsertAlert puts a after the
\* last element whose timestamp is >= its own.
RECURSIVE InsertAlert(_, _)
InsertAlert(sorted, a) ==
  IF sorted = <<>> THEN <<a>>
  ELSE IF Head(sorted).timestamp >= a.timestamp
       THEN <<Head(sorted)>> \o InsertAlert(Tail(sorted), a)
       ELSE <<a>> \o sorted

RECURSIVE SortNewestFirst(_)
SortNewestFirst(alerts) ==
  IF alerts = <<>> THEN <<>>
  ELSE InsertAlert(SortNewestFirst(SubSeq(alerts, 1, Len(alerts) - 1)),
                   alerts[Len(alerts)])

ZeroTracker == [m \in Metrics |-> 0]

\* the counters of the pass before, carried into the next scan
CarriedTracker(before) == before

\* line 129: consecutive_anomalies = defaultdict(int), local to the pass
FreshTracker(before) == ZeroTracker

(***************************************************************************)
(* Correlation engine                                                      *)
(***************************************************************************)
\* MIN_CORRELATION = 0.3, in tenths
MinCorrelation10 == 3
\* _calculate_pearson returns (0, 0) below this many points
MinPearsonPoints == 10
\* aligned points a pair needs
MinAligned == 14
\* confidence = min(1, n / 60)
ConfidenceDays == 60
\* strength is "strong" from 0.6 on, in tenths
StrongCorrelation10 == 6

CORRELATION_PAIRS ==
  <<[a |-> "sleep_duration", b |-> "energy_level", offset |-> 0],
    [a |-> "sleep_quality",  b |-> "stress_score", offset |-> 0],
    [a |-> "steps",          b |-> "sleep_quality", offset |-> 0],
    [a |-> "stress_score",   b |-> "resting_hr",   offset |-> 0],
    [a |-> "hrv",            b |-> "energy_level", offset |-> 0],
    [a |-> "sleep_duration", b |-> "steps",        offset |-> 1],
    [a |-> "sleep_duration", b |-> "energy_level", offset |-> 1],
    [a |-> "sleep_quality",  b |-> "stress_score", offset |-> 1],
    [a |-> "stress_score",   b |-> "sleep_quality", offset |-> 1]>>

\* _extract_metric_series: (date, value) of the records whose value is not
\* None (a value of 0 is kept)
ExtractMetricSeries(records, m) ==
  LET HasValue(r) == Field(r, m) # Absent
      kept == SelectSeq(records, HasValue)
  IN  [x \in 1..Len(kept) |->
         [date |-> kept[x].date, value |-> Field(kept[x], m)[1]]]

\* dict_b[key] of {date: value for date, value in series_b}: the last entry
\* with that date (<<>> when the key is not in dict_b)
DictLookup(series_b, key) ==
  LET hits == {x \in 1..Len(series_b) : series_b[x].date = key}
      last == CHOOSE x \in hits : \A y \in hits : y <= x
  IN  IF hits = {} THEN <<>> ELSE <<series_b[last].value>>

\* strptime(date_a) raises on a missing (None) or malformed date
AlignRaises(series_a) ==
  \E n \in 1..Len(series_a) :
    series_a[n].date = Absent \/ ~ValidDate(series_a[n].date[1])

\* _align_series, when it does not raise: the pairs (A[d], B[d + offset])
AlignSeries(series_a, series_b, offset) ==
  LET target_str(e) == strftime(strptime(e.date[1]) + offset)
      InDictB(e) == DictLookup(series_b, Some(target_str(e))) # <<>>
      kept == SelectSeq(series_a, InDictB)
  IN  [a |-> [x \in 1..Len(kept) |-> kept[x].value],
       b |-> [x \in 1..Len(kept) |->
                DictLookup(series_b, Some(target_str(kept[x])))[1]]]

RECURSIVE SumProd(_, _)
SumProd(x, y) ==
  IF x = <<>> THEN 0 ELSE x[1] * y[1] + SumProd(Tail(x), Tail(y))

\* a / b >= c / d for a, c >= 0 and b, d > 0, by continued fractions (no
\* product is formed)
RECURSIVE FracGe(_, _, _, _)
FracGe(a, b, c, d) ==
  LET qa == a \div b
      qc == c \div d
      ra == a % b
      rc == c % d
  IN  IF qa # qc THEN qa > qc
      ELSE IF rc = 0 THEN TRUE
      ELSE IF ra = 0 THEN FALSE
      ELSE FracGe(d, rc, b, ra)

\* a * b >= c * d for non-negative a, b, c, d
ProdGe(a, b, c, d) ==
  IF c = 0 \/ d = 0 THEN TRUE
  ELSE IF a = 0 \/ b = 0 THEN FALSE
  ELSE FracGe(a, c, d, b)

\* the sums with the deviation of x standing in for that of y too:
\* covariance / (std_x * std_x)
PearsonSumsByX(x, y) ==
  [n   |-> Len(x),
   sxy |-> Len(x) * SumProd(x, y) - Sum(x) * Sum(y),
   sxx |-> Len(x) * SumSq(x) - Sum(x) * Sum(x),
   syy |-> Len(x) * SumSq(x) - Sum(x) * Sum(x)]

\* The sums _calculate_pearson works with, scaled by n to stay integral:
\* sxy = n * sum((x - mean_x)(y - mean_y)), sxx = n * sum((x - mean_x)^2),
\* syy likewise.  Then covariance = sxy / n^2 (line 91 divides the sum by
\* n), std_x = sqrt(sxx / (n (n - 1))) (statistics.stdev divides by n - 1),
\* so correlation = sxy (n - 1) / (n sqrt(sxx syy)).
PearsonSums(x, y) ==
  [n   |-> Len(x),
   sxy |-> Len(x) * SumProd(x, y) - Sum(x) * Sum(y),
   sxx |-> Len(x) * SumSq(x) - Sum(x) * Sum(x),
   syy |-> Len(y) * SumSq(y) - Sum(y) * Sum(y)]

\* the early return of line 85 only (n < 10), without the test of the
\* deviations at line 96
PearsonTooShort(p) == p.n < MinPearsonPoints

\* the early returns of _calculate_pearson: (0.0, 0.0)
PearsonZero(p) == p.n < MinPearsonPoints \/ p.sxx = 0 \/ p.syy = 0

\* the same test with the two divisors exchanged: the sum of products over
\* n - 1 and the deviations over n, correlation = sxy n / ((n - 1) sqrt(sxx syy))
CorrAbsGeExchanged(p, c, q) ==
  IF PearsonZero(p) THEN c = 0
  ELSE ProdGe(q * Abs(p.sxy) * p.n, q * Abs(p.sxy) * p.n,
              c * (p.n - 1) * p.sxx, c * (p.n - 1) * p.syy)

\* |correlation| >= c / q for integers c >= 0, q > 0
CorrAbsGe(p, c, q) ==
  IF PearsonZero(p) THEN c = 0
  ELSE ProdGe(q * Abs(p.sxy) * (p.n - 1), q * Abs(p.sxy) * (p.n - 1),
              c * p.n * p.sxx, c * p.n * p.syy)

\* round(|correlation|, 3) in thousandths: the largest k in lo..hi with
\* |correlation| >= (2k - 1) / 2000
RECURSIVE MilliIn(_, _, _)
MilliIn(p, lo, hi) ==
  IF lo = hi THEN lo
  ELSE LET mid == (lo + hi + 1) \div 2
       IN  IF CorrAbsGe(p, 2 * mid - 1, 2000) THEN MilliIn(p, mid, hi)
           ELSE MilliIn(p, lo, mid - 1)

\* round(correlation, 3), in thousandths, with its sign; round() does not
\* clamp, so the value is looked for up to 2.000
CorrMilli(p) ==
  IF PearsonZero(p) THEN 0
  ELSE IF p.sxy < 0 THEN -MilliIn(p, 0, 2000) ELSE MilliIn(p, 0, 2000)

\* n / 60 in hundredths, without the min(1.0, ...) of line 100
ConfidenceUncapped(p) ==
  IF PearsonZero(p) THEN 0 ELSE RoundDiv(100 * p.n, ConfidenceDays)

\* round(confidence, 2) in hundredths, confidence = min(1.0, n / 60)
Confidence100(p) ==
  IF PearsonZero(p) THEN 0 ELSE Min(100, RoundDiv(100 * p.n, ConfidenceDays))

\* the test of line 121 without abs(): correlation >= MIN_CORRELATION
RetainedPositive(p) ==
  CorrAbsGe(p, MinCorrelation10, 10) /\ ~PearsonZero(p) /\ p.sxy > 0

\* line 121: abs(correlation) >= MIN_CORRELATION
Retained(p) == CorrAbsGe(p, MinCorrelation10, 10) /\ ~PearsonZero(p)

\* metric_types of _create_insight
InsightMetricType(m) == BaselineMetricType(m)

\* _create_insight; description stands for the generated text (strength,
\* direction, the two names and the next-day note)
CreateInsight(pair, p) ==
  [metric_a |-> InsightMetricType(pair.a),
   metric_b |-> InsightMetricType(pair.b),
   correlation_coefficient |-> CorrMilli(p),
   description |->
     [strength  |-> IF CorrAbsGe(p, StrongCorrelation10, 10) THEN "strong"
                    ELSE "moderate",
      direction |-> IF p.sxy > 0 THEN "positive" ELSE "negative",
      name_a    |-> pair.a,
      name_b    |-> pair.b,
      next_day  |-> pair.offset > 0],
   sample_size |-> p.n,
   confidence |-> Confidence100(p)]

\* the Field constraints of CorrelationInsight: correlation_coefficient
\* ge=-1, le=1 and confidence ge=0, le=1; the constructor raises
\* ValidationError otherwise
Validates(c) ==
  /\ c.correlation_coefficient >= -1000
  /\ c.correlation_coefficient <= 1000
  /\ c.confidence >= 0
  /\ c.confidence <= 100

\* only the guard of _calculate_pearson (n < 10) in place of line 116
TooFewForPearson(aligned) == Len(aligned) < MinPearsonPoints

\* line 116: len(aligned_a) < 14
TooFewAligned(aligned) == Len(aligned) < MinAligned

\* One pass of the loop of _calculate_correlations over pair number j:
\* whether it raised and the insight appended (<<>> for none).
PairResult(records, j) ==
  LET pair == CORRELATION_PAIRS[j]
      series_a == ExtractMetricSeries(records, pair.a)
      series_b == ExtractMetricSeries(records, pair.b)
      al == AlignSeries(series_a, series_b, pair.offset)
      p == PearsonSums(al.a, al.b)
  IN  IF series_a = <<>> \/ series_b = <<>>
      THEN [raised |-> FALSE, insight |-> <<>>]
      ELSE IF AlignRaises(series_a)
      THEN [raised |-> TRUE, insight |-> <<>>]
      ELSE IF TooFewAligned(al.a)
      THEN [raised |-> FALSE, insight |-> <<>>]
      ELSE IF Retained(p)
      THEN IF Validates(CreateInsight(pair, p))
           THEN [raised |-> FALSE, insight |-> <<CreateInsight(pair, p)>>]
           ELSE [raised |-> TRUE, insight |-> <<>>]
      ELSE [raised |-> FALSE, insight |-> <<>>]

\* list.sort(key = abs(correlation_coefficient), reverse = True), stable
RECURSIVE InsertInsight(_, _)
InsertInsight(sorted, c) ==
  IF sorted = <<>> THEN <<c>>
  ELSE IF Abs(Head(sorted).correlation_coefficient)
            >= Abs(c.correlation_coefficient)
       THEN <<Head(sorted)>> \o InsertInsight(Tail(sorted), c)
       ELSE <<c>> \o sorted

\* the list as the loop appended it, line 125 left out
InCatalogueOrder(cs) == cs

RECURSIVE SortStrongestFirst(_)
SortStrongestFirst(cs) ==
  IF cs = <<>> THEN <<>>
  ELSE InsertInsight(SortStrongestFirst(SubSeq(cs, 1, Len(cs) - 1)),
                     cs[Len(cs)])

(***************************************************************************)
(* _detect_anomalies and _calculate_correlations as functions of the       *)
(* records (a whole rebuild in one piece).                                 *)
(***************************************************************************)
\* the metric blocks kk.. of _check_record_for_anomalies on one record
RECURSIVE CheckFrom(_, _, _, _, _)
CheckFrom(record, record_date, kk, tr, bl) ==
  IF kk > Len(ScanOrder) THEN [raised |-> FALSE, tracker |-> tr, alerts |-> <<>>]
  ELSE IF ~Checked(record, ScanOrder[kk], bl)
  THEN CheckFrom(record, record_date, kk + 1, tr, bl)
  ELSE LET r == CheckMetric(ScanOrder[kk], Field(record, ScanOrder[kk])[1],
                            record_date, tr, bl)
           rest == CheckFrom(record, record_date, kk + 1, r.tracker, bl)
       IN  IF r.raised THEN [raised |-> TRUE, tracker |-> tr, alerts |-> <<>>]
           ELSE [raised |-> rest.raised, tracker |-> rest.tracker,
                 alerts |-> r.alert \o rest.alerts]

\* the loop of _detect_anomalies from record n of recent_records on
RECURSIVE DetectFrom(_, _, _, _)
DetectFrom(recent, n, tr, bl) ==
  IF n > Len(recent) THEN [raised |-> FALSE, alerts |-> <<>>]
  ELSE IF recent[n].date = Absent \/ ~ValidDate(recent[n].date[1])
  THEN [raised |-> TRUE, alerts |-> <<>>]
  ELSE LET r == CheckFrom(recent[n], strptime(recent[n].date[1]), 1, tr, bl)
           rest == DetectFrom(recent, n + 1, r.tracker, bl)
       IN  IF r.raised THEN [raised |-> TRUE, alerts |-> <<>>]
           ELSE [raised |-> rest.raised, alerts |-> r.alerts \o rest.alerts]

\* a complete _detect_anomalies: whether it raises, and else the list
DetectAnomalies(records, bl) ==
  IF Len(records) < MinRecords THEN [raised |-> FALSE, alerts |-> <<>>]
  ELSE LET r == DetectFrom(RecentRecords(records), 1, ZeroTracker, bl)
       IN  [raised |-> r.raised,
            alerts |-> IF r.raised THEN <<>> ELSE SortNewestFirst(r.alerts)]

\* the loop of _calculate_correlations from pair jj on
RECURSIVE CorrelateFrom(_, _)
CorrelateFrom(records, jj) ==
  IF jj > Len(CORRELATION_PAIRS) THEN [raised |-> FALSE, insights |-> <<>>]
  ELSE LET r == PairResult(records, jj)
           rest == CorrelateFrom(records, jj + 1)
       IN  IF r.raised THEN [raised |-> TRUE, insights |-> <<>>]
           ELSE [raised |-> rest.raised, insights |-> r.insight \o rest.insights]

\* a complete _calculate_correlations
CalculateCorrelations(records) ==
  LET r == CorrelateFrom(records, 1)
  IN  [raised |-> r.raised,
       insights |-> IF r.raised THEN <<>> ELSE SortStrongestFirst(r.insights)]

(***************************************************************************)
(* The clock and the read operations that use it.  A reading of            *)
(* datetime.now() is a day of the year and whether it is exactly midnight; *)
(* the clock is never behind the date of the last record.                  *)
(***************************************************************************)
\* timestamp >= now - timedelta(days = span), timestamps being midnights
InCutoff(timestamp, today, exact, span) ==
  timestamp > today - span \/ (timestamp = today - span /\ exact)

\* the days the clock may show when a read is served
Todays(records) ==
  LET last == 24 + Len(records) IN last..(last + MaxClockLead)

\* timeline[date][severity] of get_anomaly_timeline (0 for a missing date)
TimelineCount(alerts, today, exact, days, date, severity) ==
  Cardinality({x \in 1..Len(alerts) :
                 /\ InCutoff(alerts[x].timestamp, today, exact, days)
                 /\ strftime(alerts[x].timestamp) = date
                 /\ alerts[x].severity = severity})

\* get_anomaly_timeline(days).  The clock is read once for the cutoff and
\* once per entry; the first `rollover` entries are built before midnight
\* passes, the others on the next day (rollover = days: no midnight passes).
GetAnomalyTimeline(alerts, days, today, exact, rollover) ==
  [e \in 1..days |->
     LET now == IF e - 1 < rollover THEN today ELSE today + 1
         check_date == strftime(now - (days - e))
         c(severity) ==
           TimelineCount(alerts, today, exact, days, check_date, severity)
     IN  [date |-> check_date, info |-> c("info"), warning |-> c("warning"),
          critical |-> c("critical"),
          total |-> c("info") + c("warning") + c("critical")]]

\* the categories of the health score and the metric types they count
Categories == {"Sleep", "Cardiovascular", "Activity", "Wellness"}
CategoryTypes(category) ==
  CASE category = "Sleep" -> {"sleep"}
    [] category = "Cardiovascular" -> {"heart_rate"}
    [] category = "Activity" -> {"steps"}
    [] category = "Wellness" -> {"stress", "energy"}

\* int(x) for x = num / den, den > 0: towards zero
IntPart(num, den) == IF num >= 0 THEN num \div den ELSE -((-num) \div den)

\* the score of one component: max(0, 100 - 10 * alerts of the category)
ComponentScore(recent, category) ==
  Max(0, 100 - AlertPenalty *
           Cardinality({x \in 1..Len(recent) :
                          recent[x].metric_type \in CategoryTypes(category)}))

\* max(0, min(100, int(weighted - deduction * 0.3)))
FinalScoreUnclamped(weighted100, deduction) ==
  IntPart(10 * weighted100 - 100 * DeductionWeight10 * deduction, 1000)
FinalScore(weighted100, deduction) ==
  Max(0, Min(100, IntPart(10 * weighted100 - 100 * DeductionWeight10 * deduction,
                          1000)))

\* calculate_health_score_detailed
HealthScore(alerts, today, exact) ==
  LET recent == SelectSeq(alerts,
                  LAMBDA a : InCutoff(a.timestamp, today, exact, ScoreDays))
      n(severity) ==
        Cardinality({x \in 1..Len(recent) : recent[x].severity = severity})
      deduction == n("critical") * CriticalWeight + n("warning") * WarningWeight
                   + n("info") * InfoWeight
      components == [c \in Categories |-> ComponentScore(recent, c)]
      weighted100 == ComponentWeight100 *
                       (components["Sleep"] + components["Cardiovascular"]
                        + components["Activity"] + components["Wellness"])
  IN  [overall_score |-> FinalScore(weighted100, deduction),
       components |-> components]

(***************************************************************************)
(* The record store and the record sets explored.                          *)
(***************************************************************************)
\* values of a metric over the early records: mean 14.00, std_dev 2.00
BasePattern == <<12, 12, 12, 12, 14, 16, 16, 16, 16>>

\* the values a free record takes for stress_score:
\* z = 0, 1.5, 2.0 and 2.5 against BasePattern
TailValues == {14, 17, 18, 19}

\* resting_hr over the free records: z = 1.5 (below) three times, 2.5, 0
RestingTail == <<11, 11, 11, 19, 14>>

DateOfDay(n) == strftime(24 + n)

\* Record n of a record set with cfg.nb early records.  cfg.tail gives
\* stress_score over the free records, cfg.hrv the number of early records
\* with an hrv value, cfg.nodate the free record without a "date" key (0 for
\* none), cfg.zeromean whether sleep_duration averages 0 over the early
\* records, cfg.absent the free records without a stress_score.
MkRecord(cfg, n) ==
  LET t == n - cfg.nb
      p == BasePattern[((n - 1) % Len(BasePattern)) + 1]
  IN  IF t <= 0
      THEN [date |-> Some(DateOfDay(n)),
            v |-> [m \in Metrics |->
                     CASE m = "steps" -> Some(5)
                       [] m = "hrv" -> IF n <= cfg.hrv THEN Some(p) ELSE Absent
                       [] m = "sleep_duration" ->
                            IF cfg.zeromean
                            THEN (IF n <= 4 THEN Some(-2)
                                  ELSE IF n <= 8 THEN Some(2) ELSE Some(0))
                            ELSE Some(p)
                       [] OTHER -> Some(p)]]
      ELSE [date |-> IF t = cfg.nodate THEN Absent ELSE Some(DateOfDay(n)),
            v |-> [m \in Metrics |->
                     CASE m = "stress_score" ->
                            IF t \in cfg.absent THEN Absent
                            ELSE Some(cfg.tail[t])
                       [] m = "resting_hr" ->
                            Some(RestingTail[((t - 1) % Len(RestingTail)) + 1])
                       [] m = "steps" -> Some(9)
                       [] m = "sleep_duration" ->
                            IF ~cfg.zeromean THEN Some(14)
                            ELSE IF t = 1 THEN Some(2) ELSE Some(6)
                       [] OTHER -> Some(19)]]

MkRecords(cfg) == [n \in 1..(cfg.nb + Len(cfg.tail)) |-> MkRecord(cfg, n)]

OkStore(cfg) == [kind |-> "ok", records |-> MkRecords(cfg)]
MissingStore == [kind |-> "missing", records |-> <<>>]
CorruptStore == [kind |-> "corrupt", records |-> <<>>]

\* stress_score at z = 1.5 or 0 over the free records, with one of them
\* lacking the value
GapConfigs ==
  {[nb |-> 9, tail |-> t, hrv |-> 6, nodate |-> 0, zeromean |-> FALSE,
    absent |-> g] :
     t \in [1..TailLen -> {17, 0}], g \in {{}, {2}, {4}}}

\* record sets of the scan specification: every stress_score tail, plus one
\* set with a record without date and one with a zero-mean metric, plus the
\* tails with gaps
ScanConfigs ==
  GapConfigs \cup
  {[nb |-> 9, tail |-> t, hrv |-> 6, nodate |-> 0, zeromean |-> FALSE,
    absent |-> {}] :
     t \in [1..TailLen -> TailValues]}
  \cup {[nb |-> 9, tail |-> [x \in 1..TailLen |-> 19], hrv |-> 6,
         nodate |-> 3, zeromean |-> FALSE, absent |-> {}],
        [nb |-> 9, tail |-> [x \in 1..TailLen |-> 19], hrv |-> 6,
         nodate |-> 0, zeromean |-> TRUE, absent |-> {}]}

\* record sets of the service specification
MixedTail == [x \in 1..TailLen |-> IF x % 5 = 4 THEN 14
                                   ELSE IF x % 5 = 0 THEN 19 ELSE 17]
PlainConfig ==
  [nb |-> 9, tail |-> MixedTail, hrv |-> 6, nodate |-> 0, zeromean |-> FALSE,
   absent |-> {}]
HrvConfig ==
  [nb |-> 9, tail |-> [x \in 1..TailLen |-> 18], hrv |-> 9, nodate |-> 0,
   zeromean |-> FALSE, absent |-> {}]
ShortConfig ==
  [nb |-> 8, tail |-> <<19, 19, 19, 19, 19>>, hrv |-> 6, nodate |-> 0,
   zeromean |-> FALSE, absent |-> {}]
NoDateConfig ==
  [nb |-> 9, tail |-> [x \in 1..TailLen |-> 19], hrv |-> 6, nodate |-> 3,
   zeromean |-> FALSE, absent |-> {}]

ZeroMeanConfig ==
  [nb |-> 9, tail |-> [x \in 1..TailLen |-> 19], hrv |-> 6, nodate |-> 0,
   zeromean |-> TRUE, absent |-> {}]

\* a history longer than the scan window, with a stress_score far from the
\* rest in the last record before the window and in the first record of it
LongConfig ==
  [nb |-> 27, tail |-> [x \in 1..TailLen |-> 19], hrv |-> 6, nodate |-> 0,
   zeromean |-> FALSE, absent |-> {}]
LongRecords ==
  LET rs == MkRecords(LongConfig)
  IN  [x \in 1..Len(rs) |->
         IF x \in {Len(rs) - 30, Len(rs) - 29}
         THEN [rs[x] EXCEPT !.v = [@ EXCEPT !["stress_score"] = Some(30)]]
         ELSE rs[x]]
LongStore == [kind |-> "ok", records |-> LongRecords]

\* 90 days in which sleep_duration has mean 7.00 and std_dev 1.00 over the
\* baseline window (29 days of 6, 29 of 8, one of 7), stays at 7 afterwards
\* and is 10 on one day
SpikeDays == {61, 85, 90}
SpikeConfig ==
  [nb |-> 90 - TailLen, tail |-> [x \in 1..TailLen |-> 14], hrv |-> 6,
   nodate |-> 0, zeromean |-> FALSE, absent |-> {}]
SpikeRecords(day) ==
  LET rs == MkRecords(SpikeConfig)
      sleep(x) == IF x = day THEN 10
                  ELSE IF x <= 29 THEN 6 ELSE IF x <= 58 THEN 8 ELSE 7
  IN  [x \in 1..Len(rs) |->
         [rs[x] EXCEPT !.v = [@ EXCEPT !["sleep_duration"] = Some(sleep(x))]]]
SpikeStores == {[kind |-> "ok", records |-> SpikeRecords(day)] : day \in SpikeDays}

\* a record set whose last records are far from the baseline in every
\* scanned metric
StormConfig ==
  [nb |-> 9, tail |-> [x \in 1..(TailLen + 1) |-> 19], hrv |-> 9, nodate |-> 0,
   zeromean |-> FALSE, absent |-> {}]
StormRecords ==
  LET rs == MkRecords(StormConfig)
  IN  [x \in 1..Len(rs) |->
         IF x <= StormConfig.nb
         THEN [rs[x] EXCEPT !.v = [@ EXCEPT !["steps"] = rs[x].v["stress_score"]]]
         ELSE [rs[x] EXCEPT !.v = [m \in Metrics |-> Some(19)]]]
StormStore == [kind |-> "ok", records |-> StormRecords]

\* record sets of the dashboard specification
DashboardStores ==
  {OkStore(PlainConfig), OkStore(HrvConfig), OkStore(ShortConfig), StormStore}

ServiceStores ==
  {OkStore(PlainConfig), OkStore(HrvConfig), OkStore(ShortConfig),
   OkStore(NoDateConfig), OkStore(ZeroMeanConfig), LongStore, MissingStore,
   CorruptStore}

(***************************************************************************)
(* Record sets of the correlation specification: sleep_duration and        *)
(* energy_level only, which the catalogue pairs on the same day and on the *)
(* next day.                                                               *)
(***************************************************************************)
\* the dates of n consecutive days from day `first` on
Days(first, n) == [x \in 1..n |-> strftime(first + x - 1)]

\* the same date written without leading zeros ("2025-1-25")
Unpadded(ds) == [ds EXCEPT !.pad = FALSE]

Somes(values) == [x \in 1..Len(values) |-> Some(values[x])]

\* records with the given dates (Absent: no "date" key) and the given
\* optional values of sleep_duration (xs) and energy_level (ys)
SeriesRecords(dates, xs, ys) ==
  [n \in 1..Len(dates) |->
     [date |-> dates[n],
      v |-> [m \in Metrics |->
               IF m = "sleep_duration" THEN xs[n]
               ELSE IF m = "energy_level" THEN ys[n]
               ELSE Absent]]]

SeriesStore(dates, xs, ys) ==
  [kind |-> "ok", records |-> SeriesRecords(dates, xs, ys)]

\* records in which every metric carries the same series
EveryMetricStore(dates, xs) ==
  [kind |-> "ok",
   records |-> [n \in 1..Len(dates) |->
                  [date |-> dates[n], v |-> [m \in Metrics |-> xs[n]]]]]

\* 20 days, x = 41..60
Rising == [x \in 1..20 |-> 40 + x]
\* y = 100 - x
Mirror(values) == [x \in 1..Len(values) |-> 100 - values[x]]
Reversed(seq) == [x \in 1..Len(seq) |-> seq[Len(seq) + 1 - x]]

\* 14 days, two weeks of 1..7
Weeks == <<1, 2, 3, 4, 5, 6, 7, 1, 2, 3, 4, 5, 6, 7>>
\* against Weeks: Pearson 0.322, 0.333 and 0.072
NearMiss == <<5, 7, 7, 6, 1, 6, 7, 3, 1, 4, 5, 4, 5, 7>>
JustOver == <<5, 5, 3, 4, 7, 5, 7, 2, 2, 1, 4, 3, 7, 1>>
Weak == <<3, 2, 4, 6, 1, 1, 7, 5, 1, 3, 5, 1, 5, 2>>

\* x over n days and y repeating it one day later
Zigzag == <<1, 5, 2, 6, 3, 7, 4, 1, 5, 2, 6, 3, 7, 4, 1>>
Delayed(values) ==
  [x \in 1..Len(values) |-> IF x = 1 THEN 4 ELSE values[x - 1]]
\* 15 days without a same-day relation between x and Delayed(x)
Wander == <<2, 7, 5, 4, 6, 1, 6, 7, 1, 2, 7, 5, 1, 3, 7>>
\* a series that never changes
Flat(values) == [x \in 1..Len(values) |-> 5]

\* two months and more: n days of values 1, 1, 2, 2, 3, 3, 2, 2 in turn
Seasons(n) == [x \in 1..n |-> <<1, 1, 2, 2, 3, 3, 2, 2>>[(x % 8) + 1]]

\* 20 days with a value missing here and there, and a week without records
Holes(values, missing) ==
  [x \in 1..Len(values) |-> IF x \in missing THEN Absent ELSE Some(values[x])]
BrokenDates ==
  [x \in 1..20 |-> strftime(IF x <= 10 THEN 24 + x ELSE 31 + x)]

EngineStores ==
  LET d20 == Days(25, 20)
      d14 == Days(25, 14)
  IN  {SeriesStore(Somes(d20), Somes(Rising), Somes(Mirror(Rising))),
       SeriesStore(Somes(d20), Somes(Rising), Somes(Rising)),
       SeriesStore(Somes(Reversed(d20)), Somes(Reversed(Rising)),
                   Somes(Reversed(Mirror(Rising)))),
       SeriesStore(Somes(d14), Somes(Weeks), Somes(NearMiss)),
       SeriesStore(Somes(d14), Somes(Weeks), Somes(JustOver)),
       SeriesStore(Somes(d14), Somes(Weeks), Somes(Weak)),
       SeriesStore(Somes(d14), Somes(SubSeq(Zigzag, 1, 14)),
                   Somes(Delayed(SubSeq(Zigzag, 1, 14)))),
       SeriesStore(Somes(Days(25, 15)), Somes(Zigzag), Somes(Delayed(Zigzag))),
       SeriesStore(Somes(Days(25, 15)), Somes(Wander), Somes(Delayed(Wander))),
       SeriesStore(Somes(d14), Somes(Weeks), Somes(Flat(Weeks))),
       SeriesStore(Somes(d14), Somes(Flat(Weeks)), Somes(Weeks)),
       SeriesStore(Somes(Days(25, 60)), Somes(Seasons(60)),
                   Somes(Delayed(Seasons(60)))),
       SeriesStore(Somes(Days(25, 61)), Somes(Seasons(61)),
                   Somes(Delayed(Seasons(61)))),
       EveryMetricStore(Somes(Days(25, 15)), Somes(Zigzag)),
       SeriesStore(Somes(d20), Holes(Rising, {3, 11}),
                   Holes(Mirror(Rising), {4, 5, 20})),
       SeriesStore(Somes(BrokenDates), Somes(Rising), Somes(Mirror(Rising))),
       SeriesStore(Somes([x \in 1..20 |-> Unpadded(d20[x])]), Somes(Rising),
                   Somes(Mirror(Rising))),
       SeriesStore([x \in 1..20 |-> IF x = 7 THEN Absent ELSE Some(d20[x])],
                   Somes(Rising), Somes(Mirror(Rising)))}

(***************************************************************************)
(* State.                                                                  *)
(***************************************************************************)
VARIABLES
  store,              \* the record store on disk (synthetic_health_data.json)
  changes,            \* number of times the store was rewritten
  d_cache,            \* DataIngestionService._data_cache (<<>> is {})
  a_cache,            \* AnomalyDetectionService._data_cache
  c_cache,            \* CorrelationEngine._data_cache
  baselines,          \* AnomalyDetectionService._baselines
  anomalies,          \* AnomalyDetectionService._anomalies
  correlations,       \* CorrelationEngine._correlations
  pc,                 \* position of the constructing / refreshing thread
  op,                 \* "construct" (module start) or "refresh" (POST)
  i,                  \* _detect_anomalies: index of the record being scanned
  k,                  \* _check_record_for_anomalies: index in ScanOrder
  anomalies_today,    \* _check_record_for_anomalies: anomalies
  tracker,            \* _detect_anomalies: consecutive_anomalies
  j,                  \* _calculate_correlations: index in CORRELATION_PAIRS
  a_status,           \* last detector rebuild: "none", "running", "ok", "raised"
  c_status,           \* last correlation rebuild, likewise
  a_source,           \* what the detector's last _load_data found on disk
  c_source,           \* what the correlation engine's last _load_data found
  old_anomalies,      \* _anomalies when the last detector rebuild began
  old_correlations,   \* _correlations when the last correlation rebuild began
  seen                \* <<>> or the answer of the read just served

storevars == <<store, changes>>
detvars == <<a_cache, baselines, anomalies, i, k, anomalies_today, tracker,
             a_status, a_source, old_anomalies>>
corvars == <<c_cache, correlations, j, c_status, c_source, old_correlations>>
vars == <<store, changes, d_cache, a_cache, c_cache, baselines, anomalies,
          correlations, pc, op, i, k, anomalies_today, tracker, j, a_status,
          c_status, a_source, c_source, old_anomalies, old_correlations, seen>>

\* self._data_cache.get("records", [])
Records(cache) == IF cache = <<>> THEN <<>> ELSE cache[1]

\* _load_data of the detector and of the correlation engine: a missing file
\* leaves the cache as it is, an unreadable one sets it to no records
LoadData(cache, st) ==
  IF st.kind = "missing" THEN cache
  ELSE IF st.kind = "corrupt" THEN Some(<<>>)
  ELSE Some(st.records)

\* _load_data of the data service: a missing file empties the cache too
LoadDataOrEmpty(cache, st) ==
  IF st.kind = "ok" THEN Some(st.records) ELSE Some(<<>>)

\* where an exception leaves the thread: a refresh answers 500 and the
\* service goes on, an exception in a constructor ends the process
AfterRaise == IF op = "construct" THEN "failed" ELSE "idle"

ScanRecord == RecentRecords(Records(a_cache))[i]

\* a step of the thread: the read served before it has been answered
Step(next) == pc' = next /\ seen' = <<>>

(***************************************************************************)
(* The data service.                                                       *)
(***************************************************************************)
d_load_data ==
  /\ pc = "d_load"
  /\ d_cache' = LoadDataOrEmpty(d_cache, store)
  /\ Step("a_load")
  /\ UNCHANGED <<storevars, detvars, corvars, op>>

(***************************************************************************)
(* The detector, statement by statement.                                   *)
(***************************************************************************)
a_load_data ==
  /\ pc = "a_load"
  /\ a_cache' = LoadData(a_cache, store)
  /\ a_source' = store.kind
  /\ a_status' = "running"
  /\ old_anomalies' = anomalies
  /\ Step("a_baselines")
  /\ UNCHANGED <<storevars, d_cache, corvars, baselines, anomalies, op, i, k,
                 anomalies_today, tracker>>

a_calculate_baselines ==
  /\ pc = "a_baselines"
  /\ baselines' = CalculateBaselines(Records(a_cache), baselines)
  /\ Step("a_detect")
  /\ UNCHANGED <<storevars, d_cache, corvars, a_cache, anomalies, op, i, k,
                 anomalies_today, tracker, a_status, a_source, old_anomalies>>

\* lines 122-129: the list is emptied first
a_detect_begin ==
  /\ pc = "a_detect"
  /\ anomalies' = <<>>
  /\ IF Len(Records(a_cache)) < MinRecords
     THEN Step("c_load") /\ a_status' = "ok" /\ UNCHANGED <<i, tracker>>
     ELSE Step("a_record") /\ i' = 1 /\ tracker' = FreshTracker(tracker)
          /\ UNCHANGED a_status
  /\ UNCHANGED <<storevars, d_cache, corvars, a_cache, baselines, op, k,
                 anomalies_today, a_source, old_anomalies>>

\* line 132 and the entry of _check_record_for_anomalies
a_record_begin ==
  /\ pc = "a_record"
  /\ IF ScanRecord.date = Absent \/ ~ValidDate(ScanRecord.date[1])
     THEN Step(AfterRaise) /\ a_status' = "raised"
          /\ UNCHANGED <<k, anomalies_today>>
     ELSE Step("a_metric") /\ k' = 1 /\ anomalies_today' = <<>>
          /\ UNCHANGED a_status
  /\ UNCHANGED <<storevars, d_cache, corvars, a_cache, baselines, anomalies,
                 op, i, tracker, a_source, old_anomalies>>

\* one metric block of _check_record_for_anomalies
a_check_metric ==
  /\ pc = "a_metric"
  /\ LET m == ScanOrder[k]
         r == CheckMetric(m, Field(ScanRecord, m)[1],
                          strptime(ScanRecord.date[1]), tracker, baselines)
         next == IF k = Len(ScanOrder) THEN "a_extend" ELSE "a_metric"
     IN  IF ~Checked(ScanRecord, m, baselines)
         THEN Step(next) /\ k' = k + 1
              /\ UNCHANGED <<tracker, anomalies_today, a_status>>
         ELSE IF r.raised
         THEN Step(AfterRaise) /\ a_status' = "raised"
              /\ UNCHANGED <<k, tracker, anomalies_today>>
         ELSE Step(next) /\ k' = k + 1
              /\ tracker' = r.tracker
              /\ anomalies_today' = anomalies_today \o r.alert
              /\ UNCHANGED a_status
  /\ UNCHANGED <<storevars, d_cache, corvars, a_cache, baselines, anomalies,
                 op, i, a_source, old_anomalies>>

\* line 134
a_extend ==
  /\ pc = "a_extend"
  /\ anomalies' = anomalies \o anomalies_today
  /\ IF i < Len(RecentRecords(Records(a_cache)))
     THEN Step("a_record") /\ i' = i + 1
     ELSE Step("a_sort") /\ UNCHANGED i
  /\ UNCHANGED <<storevars, d_cache, corvars, a_cache, baselines, op, k,
                 anomalies_today, tracker, a_status, a_source, old_anomalies>>

\* line 136
a_sort ==
  /\ pc = "a_sort"
  /\ anomalies' = SortNewestFirst(anomalies)
  /\ a_status' = "ok"
  /\ Step("c_load")
  /\ UNCHANGED <<storevars, d_cache, corvars, a_cache, baselines, op, i, k,
                 anomalies_today, tracker, a_source, old_anomalies>>

Detector ==
  \/ a_load_data
  \/ a_calculate_baselines
  \/ a_detect_begin
  \/ a_record_begin
  \/ a_check_metric
  \/ a_extend
  \/ a_sort

(***************************************************************************)
(* The correlation engine, statement by statement.                         *)
(***************************************************************************)
c_load_data ==
  /\ pc = "c_load"
  /\ c_cache' = LoadData(c_cache, store)
  /\ c_source' = store.kind
  /\ c_status' = "running"
  /\ old_correlations' = correlations
  /\ Step("c_begin")
  /\ UNCHANGED <<storevars, d_cache, detvars, correlations, op, j>>

\* line 105: the list is emptied first
c_begin ==
  /\ pc = "c_begin"
  /\ correlations' = <<>>
  /\ j' = 1
  /\ Step("c_pair")
  /\ UNCHANGED <<storevars, d_cache, detvars, c_cache, op, c_status, c_source,
                 old_correlations>>

\* lines 107-123 for one pair of the catalogue
c_pair ==
  /\ pc = "c_pair"
  /\ LET r == PairResult(Records(c_cache), j)
     IN  IF r.raised
         THEN Step(AfterRaise) /\ c_status' = "raised"
              /\ UNCHANGED <<correlations, j>>
         ELSE /\ correlations' = correlations \o r.insight
              /\ j' = j + 1
              /\ Step(IF j = Len(CORRELATION_PAIRS) THEN "c_sort" ELSE "c_pair")
              /\ UNCHANGED c_status
  /\ UNCHANGED <<storevars, d_cache, detvars, c_cache, op, c_source,
                 old_correlations>>

\* line 125; the constructor or the refresh handler returns
c_sort ==
  /\ pc = "c_sort"
  /\ correlations' = SortStrongestFirst(correlations)
  /\ c_status' = "ok"
  /\ Step("idle")
  /\ UNCHANGED <<storevars, d_cache, detvars, c_cache, op, j, c_source,
                 old_correlations>>

Correlator == c_load_data \/ c_begin \/ c_pair \/ c_sort

(***************************************************************************)
(* The service: POST /api/data/refresh, the reads, and the record store    *)
(* being rewritten from outside.                                           *)
(***************************************************************************)
\* Every handler of main.py is a coroutine without a suspension point, run
\* by one event loop: a request is served between two handler runs, never in
\* the middle of refresh_data, and after the answer to the one before it has
\* been handed over.  A constructor that raised has ended the process.
ServiceUp == pc = "idle" /\ seen = <<>>

\* main.refresh_data: data_service.refresh_data(), then
\* anomaly_service.recalculate_anomalies(), then
\* correlation_engine.recalculate_correlations()
refresh_data ==
  /\ ServiceUp
  /\ op' = "refresh"
  /\ Step("d_load")
  /\ UNCHANGED <<storevars, d_cache, detvars, corvars>>

\* the answer of a read handler is handed to the client
respond ==
  /\ pc = "idle"
  /\ seen # <<>>
  /\ seen' = <<>>
  /\ UNCHANGED <<storevars, d_cache, detvars, corvars, pc, op>>

\* the severity argument: None, the empty string or a severity name
NoFilter == <<>>
SeverityArgs == {NoFilter, Some(""), Some("info"), Some("warning"),
                 Some("critical")}

\* the limit argument: the small limits and the default of the handler
Limits == 0..MaxLimit \cup {DefaultLimit}

\* lines 243-244: "if severity:" filters for a non-empty string only
FilterBySeverity(alerts, severity) ==
  IF severity # NoFilter /\ severity[1] # ""
  THEN SelectSeq(alerts, LAMBDA a : a.severity = severity[1])
  ELSE alerts

\* anomalies[:limit] for limit >= 0
FirstN(alerts, limit) == SubSeq(alerts, 1, Min(limit, Len(alerts)))

\* AnomalyDetectionService.get_anomalies
GetAnomaliesLimitFirst(alerts, severity, limit) ==
  FilterBySeverity(FirstN(alerts, limit), severity)
GetAnomalies(alerts, severity, limit) ==
  FirstN(FilterBySeverity(alerts, severity), limit)

\* GET /api/anomalies
get_anomalies ==
  /\ ServiceUp
  /\ \E severity \in SeverityArgs, limit \in Limits :
       seen' = <<[what |-> "anomalies", severity |-> severity, limit |-> limit,
                  value |-> GetAnomalies(anomalies, severity, limit)]>>
  /\ UNCHANGED <<storevars, d_cache, detvars, corvars, pc, op>>

\* get_recent_anomalies(limit), as the dashboard summary calls it
get_recent_anomalies ==
  /\ ServiceUp
  /\ \E limit \in Limits :
       seen' = <<[what |-> "recent", severity |-> NoFilter, limit |-> limit,
                  value |-> FirstN(anomalies, limit)]>>
  /\ UNCHANGED <<storevars, d_cache, detvars, corvars, pc, op>>

\* GET /api/anomalies/timeline
get_anomaly_timeline ==
  /\ ServiceUp
  /\ \E days \in 0..MaxDays, today \in Todays(Records(a_cache)),
        exact \in BOOLEAN :
       \E rollover \in 0..days :
         seen' = <<[what |-> "timeline", days |-> days, today |-> today,
                    rollover |-> rollover,
                    value |-> GetAnomalyTimeline(anomalies, days, today, exact,
                                                 rollover)]>>
  /\ UNCHANGED <<storevars, d_cache, detvars, corvars, pc, op>>

\* GET /api/health-score
get_health_score ==
  /\ ServiceUp
  /\ \E today \in Todays(Records(a_cache)), exact \in BOOLEAN :
       seen' = <<[what |-> "score", today |-> today, exact |-> exact,
                  value |-> HealthScore(anomalies, today, exact)]>>
  /\ UNCHANGED <<storevars, d_cache, detvars, corvars, pc, op>>

\* the limit argument of the correlation reads: the small limits, the
\* default of the handler, and the limits of the dashboard handlers
CorrelationLimits == 0..MaxLimit \cup {DefaultCorrelations}
TopLimits == 0..MaxLimit \cup {3, 5}

\* GET /api/correlations: CorrelationEngine.get_correlations(limit)
get_correlations ==
  /\ ServiceUp
  /\ \E limit \in CorrelationLimits :
       seen' = <<[what |-> "correlations", limit |-> limit,
                  value |-> FirstN(correlations, limit)]>>
  /\ UNCHANGED <<storevars, d_cache, detvars, corvars, pc, op>>

\* CorrelationEngine.get_top_correlations(limit), as the dashboard handlers
\* call it
get_top_correlations ==
  /\ ServiceUp
  /\ \E limit \in TopLimits :
       seen' = <<[what |-> "top", limit |-> limit,
                  value |-> FirstN(correlations, limit)]>>
  /\ UNCHANGED <<storevars, d_cache, detvars, corvars, pc, op>>

\* CorrelationEngine.recalculate_correlations, called after the record
\* store was rewritten, removed or damaged
recalculate_correlations ==
  /\ ServiceUp
  /\ changes < MaxStoreChanges
  /\ changes' = changes + 1
  /\ \E st \in EngineStores \cup {MissingStore, CorruptStore} : store' = st
  /\ op' = "refresh"
  /\ Step("c_load")
  /\ UNCHANGED <<d_cache, detvars, corvars>>

\* The file is replaced, removed or damaged.  Only the three _load_data
\* read it, so a change at any other moment shows as a change just before
\* the next of them.
store_change ==
  /\ pc \in {"d_load", "a_load", "c_load"}
  /\ changes < MaxStoreChanges
  /\ changes' = changes + 1
  /\ \E st \in ServiceStores : st # store /\ store' = st
  /\ UNCHANGED <<d_cache, detvars, corvars, pc, op, seen>>

(***************************************************************************)
(* Specifications.                                                         *)
(***************************************************************************)
\* the fields as the three constructors set them before loading
InitFields ==
  /\ changes = 0
  /\ d_cache = <<>>
  /\ a_cache = <<>>
  /\ c_cache = <<>>
  /\ baselines = NoBaselines
  /\ anomalies = <<>>
  /\ correlations = <<>>
  /\ op = "construct"
  /\ i = 0
  /\ k = 0
  /\ j = 0
  /\ anomalies_today = <<>>
  /\ tracker = ZeroTracker
  /\ a_status = "none"
  /\ c_status = "none"
  /\ a_source = "none"
  /\ c_source = "none"
  /\ old_anomalies = <<>>
  /\ old_correlations = <<>>
  /\ seen = <<>>

\* the service from module start on
Init ==
  /\ store \in ServiceStores
  /\ pc = "d_load"
  /\ InitFields

Next ==
  \/ d_load_data
  \/ Detector
  \/ Correlator
  \/ refresh_data
  \/ get_anomalies
  \/ get_recent_anomalies
  \/ get_correlations
  \/ respond
  \/ store_change

Spec == Init /\ [][Next]_vars

\* one construction of the detector over a record set of ScanConfigs
InitScan ==
  /\ store \in {OkStore(cfg) : cfg \in ScanConfigs} \cup SpikeStores
  /\ pc = "a_load"
  /\ InitFields

NextScan == Detector

SpecScan == InitScan /\ [][NextScan]_vars

\* the service after its start, serving the timeline and the health score
InitDashboard ==
  /\ store \in DashboardStores
  /\ pc = "d_load"
  /\ InitFields

NextDashboard ==
  \/ d_load_data
  \/ Detector
  \/ Correlator
  \/ get_anomaly_timeline
  \/ get_health_score
  \/ respond

SpecDashboard == InitDashboard /\ [][NextDashboard]_vars

\* one construction of the correlation engine over a record set of
\* EngineStores
InitEngine ==
  /\ store \in EngineStores
  /\ pc = "c_load"
  /\ InitFields

NextEngine == Correlator

SpecEngine == InitEngine /\ [][NextEngine]_vars

\* the correlation engine in service: constructed, read, and recalculated
\* over a changed record store
InitInsights ==
  /\ store \in EngineStores
  /\ pc = "c_load"
  /\ InitFields

NextInsights ==
  \/ Correlator
  \/ recalculate_correlations
  \/ get_correlations
  \/ get_top_correlations
  \/ respond

SpecInsights == InitInsights /\ [][NextInsights]_vars

(***************************************************************************)
(* Properties of one scan (SpecScan).                                      *)
(***************************************************************************)
\* the alerts emitted so far by the running or finished scan
EmittedAlerts ==
  IF pc \in {"a_metric", "a_extend"} THEN anomalies \o anomalies_today
  ELSE anomalies

ScanComplete == pc = "c_load"

\* the records the scan looks at
Scanned == RecentRecords(Records(a_cache))

\* metric m of scanned record n is handed to _check_metric and evaluated
Evaluated(n, m) ==
  /\ Scanned[n].date # Absent
  /\ Checked(Scanned[n], m, baselines)
  /\ baselines[m].std_dev # 0

\* |value - mean| of an evaluated value, in hundredths
Dev100(n, m) == Abs(100 * Field(Scanned[n], m)[1] - baselines[m].mean)

\* the emitted alerts of metric m for scanned record n
AlertsOf(n, m) ==
  {x \in 1..Len(EmittedAlerts) :
     /\ EmittedAlerts[x].title = m
     /\ EmittedAlerts[x].timestamp = strptime(Scanned[n].date[1])}

ScanMetrics == {ScanOrder[x] : x \in 1..Len(ScanOrder)}

\* C1: every emitted alert carries the escalated severity: a day in the info
\* band (1.5 <= z < 2.0) is warning from run length 3 on and info before, a
\* day in the warning band (2.0 <= z < 2.5) is critical from run length 5 on
\* and warning before, a day with z >= 2.5 is critical.
C1_Escalation ==
  \A x \in 1..Len(EmittedAlerts) :
    LET a == EmittedAlerts[x]
        s == baselines[a.title].std_dev
        d == Abs(100 * a.current_value - baselines[a.title].mean)
    IN  /\ (10 * d >= 15 * s /\ 10 * d < 20 * s) =>
             a.severity = IF a.consecutive_days >= 3 THEN "warning" ELSE "info"
        /\ (10 * d >= 20 * s /\ 10 * d < 25 * s) =>
             a.severity = IF a.consecutive_days >= 5 THEN "critical"
                          ELSE "warning"
        /\ (10 * d >= 25 * s) => a.severity = "critical"

\* the 3rd of 3 info-range days is a warning and the 5th of 5 warning-range
\* days is critical, in one finished scan
C1_Witness ==
  /\ ScanComplete
  /\ \E x \in 1..Len(anomalies) :
       /\ anomalies[x].title = "resting_hr"
       /\ anomalies[x].current_value = 11
       /\ anomalies[x].consecutive_days = 3
       /\ anomalies[x].severity = "warning"
  /\ \E x \in 1..Len(anomalies) :
       /\ anomalies[x].title = "stress_score"
       /\ anomalies[x].current_value = 18
       /\ anomalies[x].consecutive_days = 5
       /\ anomalies[x].severity = "critical"

\* the metric checked by the next a_check_metric step is evaluated and its
\* value is non-anomalous (z < 1.5)
NormalValueNext ==
  /\ pc = "a_metric"
  /\ Evaluated(i, ScanOrder[k])
  /\ 10 * Dev100(i, ScanOrder[k]) < 15 * baselines[ScanOrder[k]].std_dev

\* the last scanned record before n in which metric m was evaluated (0: none)
LastEvaluatedBefore(n, m) ==
  IF \E x \in 1..(n - 1) : Evaluated(x, m)
  THEN CHOOSE x \in 1..(n - 1) :
         Evaluated(x, m) /\ \A y \in (x + 1)..(n - 1) : ~Evaluated(y, m)
  ELSE 0

\* C2: a non-anomalous value sets the run-length counter of its metric to 0
\* and leaves the counters of the other metrics alone; the next alert of
\* that metric in the scan has consecutive_days = 1.
C2_ResetStep ==
  [][NormalValueNext =>
       /\ tracker'[ScanOrder[k]] = 0
       /\ \A o \in Metrics \ {ScanOrder[k]} : tracker'[o] = tracker[o]]_vars

\* checked when the alerts of record i are about to be added to the list
C2_NextAlertIsOne ==
  pc = "a_extend" =>
    \A x \in 1..Len(anomalies_today) :
      LET a == anomalies_today[x]
          p == LastEvaluatedBefore(i, a.title)
      IN  (p > 0 /\ 10 * Dev100(p, a.title) < 15 * baselines[a.title].std_dev)
            => a.consecutive_days = 1

C2_RunLengthReset == C2_ResetStep /\ []C2_NextAlertIsOne

\* stress_score: anomalous, normal, anomalous on three consecutive records;
\* the third has consecutive_days 1 while resting_hr, anomalous on all
\* three, goes on counting
C2_Witness ==
  /\ ScanComplete
  /\ \E n \in 3..Len(Scanned) :
       /\ Evaluated(n - 1, "stress_score")
       /\ 10 * Dev100(n - 1, "stress_score") < 15 * baselines["stress_score"].std_dev
       /\ AlertsOf(n - 2, "stress_score") # {}
       /\ \E x \in AlertsOf(n, "stress_score") :
            anomalies[x].consecutive_days = 1
       /\ \E x \in AlertsOf(n, "resting_hr") :
            anomalies[x].consecutive_days = 3

\* C3: in every check of an evaluated value, z < 1.5 gives no alert;
\* otherwise the value is classified info for 1.5 <= z < 2.0, warning for
\* 2.0 <= z < 2.5 and critical for z >= 2.5 (bounds included on the left),
\* and the check returns one alert for that metric and day whose severity is
\* that class unless the run length escalated it.
C3_Step ==
  (pc = "a_metric" /\ Evaluated(i, ScanOrder[k])) =>
    LET m == ScanOrder[k]
        s == baselines[m].std_dev
        d == Dev100(i, m)
        class == IF 10 * d >= 25 * s THEN "critical"
                 ELSE IF 10 * d >= 20 * s THEN "warning"
                 ELSE "info"
        a == anomalies_today'[Len(anomalies_today')]
    IN  /\ 10 * d < 15 * s =>
             anomalies_today' = anomalies_today /\ pc' \in {"a_metric", "a_extend"}
        /\ (10 * d >= 15 * s /\ pc' \in {"a_metric", "a_extend"}) =>
             /\ RawSeverity(Field(ScanRecord, m)[1], baselines[m]) = class
             /\ Len(anomalies_today') = Len(anomalies_today) + 1
             /\ SubSeq(anomalies_today', 1, Len(anomalies_today)) = anomalies_today
             /\ a.title = m
             /\ a.timestamp = strptime(ScanRecord.date[1])
             /\ \/ a.severity = class
                \/ class = "info" /\ tracker'[m] >= 3 /\ a.severity = "warning"
                \/ class = "warning" /\ tracker'[m] >= 5 /\ a.severity = "critical"

C3_SeverityBands == [][C3_Step]_vars

\* values at exactly z = 2.5 and z = 2.0 alerted as critical and warning
C3_Witness ==
  /\ ScanComplete
  /\ \E x \in 1..Len(anomalies) :
       /\ anomalies[x].title = "stress_score"
       /\ anomalies[x].current_value = 19
       /\ baselines["stress_score"].mean = 1400
       /\ baselines["stress_score"].std_dev = 200
       /\ anomalies[x].severity = "critical"
       /\ anomalies[x].consecutive_days = 1
  /\ \E x \in 1..Len(anomalies) :
       /\ anomalies[x].title = "stress_score"
       /\ anomalies[x].current_value = 18
       /\ anomalies[x].severity = "warning"

C5_ZeroStdNoAlert ==
  /\ \A x \in 1..Len(EmittedAlerts) :
       baselines[EmittedAlerts[x].title].std_dev # 0
  /\ (pc = "failed" /\ ScanRecord.date # Absent /\ ValidDate(ScanRecord.date[1]))
       => baselines[ScanOrder[k]].std_dev # 0

\* steps has a constant baseline (std_dev 0) and a scanned value far from it
C5_Witness ==
  /\ pc = "a_metric"
  /\ k = 5
  /\ ScanOrder[4] = "steps"
  /\ Checked(ScanRecord, "steps", baselines)
  /\ baselines["steps"].std_dev = 0
  /\ 100 * Field(ScanRecord, "steps")[1] # baselines["steps"].mean
  /\ \A x \in 1..Len(EmittedAlerts) : EmittedAlerts[x].title # "steps"

(***************************************************************************)
(* Properties of the service: what a rebuild leaves behind.                *)
(***************************************************************************)
\* the last rebuild of the detector / of the correlation list has ended
DetectorRebuilt == a_status \in {"ok", "raised"}
CorrelationsRebuilt == c_status \in {"ok", "raised"}

\* the record set the detector / the correlation engine holds
Loaded == Records(a_cache)
LoadedC == Records(c_cache)

\* what a detector constructed on the loaded record set holds
FreshBaselines == CalculateBaselines(Loaded, NoBaselines)
FreshAlerts == DetectAnomalies(Loaded, FreshBaselines)
FreshCorrelations == CalculateCorrelations(LoadedC)

\* the complete result of scanning the loaded record set with the baselines
\* the detector holds after _calculate_baselines
CompleteAlerts == DetectAnomalies(Loaded, CalculateBaselines(Loaded, baselines))

\* the loaded record set has at least 14 records and at least 7 non-null
\* values of metric m in its baseline window
MeetsBaselineCondition(m) ==
  /\ Len(Loaded) >= 14
  /\ Cardinality({n \in 1..Len(BaselineRecords(Loaded)) :
                    Field(BaselineRecords(Loaded)[n], m) # Absent}) >= 7

\* C6: after construction and after every recalculate_anomalies, a metric has
\* a baseline only if the loaded record set has at least 14 records and at
\* least 7 values of the metric in its baseline window, and a metric that
\* does not meet this has no alert.
C6_BaselineInvariant ==
  DetectorRebuilt =>
    \A m \in Metrics :
      ~MeetsBaselineCondition(m) =>
        /\ m \notin DOMAIN baselines
        /\ \A x \in 1..Len(anomalies) : anomalies[x].title # m

\* C7: after a completed recalculate_anomalies the baselines and the alerts
\* are those of a detector constructed on the loaded record set, and after a
\* completed recalculate_correlations the correlation list is that of an
\* engine constructed on it.
C7_RebuildEqualsFresh ==
  /\ (a_status = "ok" /\ ~FreshAlerts.raised) =>
       /\ baselines = FreshBaselines
       /\ anomalies = FreshAlerts.alerts
  /\ (c_status = "ok" /\ ~FreshCorrelations.raised) =>
       correlations = FreshCorrelations.insights

\* C8: when the record store was missing or corrupt at the load of a
\* construction or of a recalculate, the detector afterwards has no
\* baselines and no alerts, the engine has no correlations, and nothing was
\* raised.
C8_FaultGivesEmpty ==
  /\ (DetectorRebuilt /\ a_source \in {"missing", "corrupt"}) =>
       /\ a_status = "ok"
       /\ DOMAIN baselines = {}
       /\ anomalies = <<>>
  /\ (CorrelationsRebuilt /\ c_source \in {"missing", "corrupt"}) =>
       /\ c_status = "ok"
       /\ correlations = <<>>

\* C9: the alert list a caller reads after a recalculate_anomalies, whether
\* it completed or stopped on a malformed record, is the complete sorted
\* result for the record set or empty.
C9_AllOrNothing ==
  (/\ seen # <<>> /\ seen[1].what = "anomalies" /\ op = "refresh"
   /\ seen[1].severity = NoFilter /\ seen[1].limit >= Len(anomalies)) =>
    \/ seen[1].value = <<>>
    \/ a_status = "ok" /\ seen[1].value = CompleteAlerts.alerts

\* C10: while a recalculate is in progress the alert list is the complete old
\* list or the complete new one, and so is the correlation list: each is
\* replaced in one assignment.
C10_SingleSwap ==
  op = "refresh" =>
  /\ a_status = "running" =>
       \/ anomalies = old_anomalies
       \/ ~CompleteAlerts.raised /\ anomalies = CompleteAlerts.alerts
  /\ c_status = "running" =>
       \/ correlations = old_correlations
       \/ ~FreshCorrelations.raised /\ correlations = FreshCorrelations.insights

(***************************************************************************)
(* Properties of the scan window and of the read operations.               *)
(***************************************************************************)
\* record n of the loaded record set is one of its most recent 30
InLast30(n) == n >= 1 /\ n <= Len(Loaded) /\ n > Len(Loaded) - 30

\* alert a was created from record n: it carries the date of the record and
\* the value of its metric in it
CreatedFrom(a, n) ==
  /\ Loaded[n].date # Absent
  /\ a.timestamp = strptime(Loaded[n].date[1])
  /\ Field(Loaded[n], a.title) = Some(a.current_value)

\* The detector's rebuild has ended and no read is being answered; the
\* detector's fields stay as they are from here to the next a_load_data.
RebuildEnded ==
  DetectorRebuilt /\ seen = <<>> /\ pc \in {"c_load", "idle", "failed"}

\* C11: after a construction or a recalculate, every alert of the detector
\* was created from one of the most recent 30 records of the loaded record
\* set, no alert carries the date of an older record, and there is no alert
\* when fewer than 14 records are loaded.
C11_ScanWindow ==
  RebuildEnded =>
    /\ \A x \in 1..Len(anomalies) :
         /\ \E n \in 1..Len(Loaded) : InLast30(n) /\ CreatedFrom(anomalies[x], n)
         /\ \A n \in 1..Len(Loaded) :
              CreatedFrom(anomalies[x], n) => InLast30(n)
    /\ Len(Loaded) < 14 => anomalies = <<>>

\* a history of more than 30 records was scanned: the record just before the
\* window has an anomalous stress_score and no alert, the first record of
\* the window has the same value and an alert
C11_Witness ==
  /\ a_status = "ok"
  /\ Len(Loaded) > 30
  /\ LET old == Loaded[Len(Loaded) - 30]
         first == Loaded[Len(Loaded) - 29]
     IN  /\ Field(old, "stress_score") = Field(first, "stress_score")
         /\ ZAtLeast(Field(old, "stress_score")[1], baselines["stress_score"],
                     InfoZ10)
         /\ \A x \in 1..Len(anomalies) :
              anomalies[x].timestamp # strptime(old.date[1])
         /\ \E x \in 1..Len(anomalies) :
              /\ anomalies[x].timestamp = strptime(first.date[1])
              /\ anomalies[x].title = "stress_score"

\* C12: whenever baselines are computed (at least 14 records loaded), no
\* record is both in the baseline window, the earliest
\* min(60, floor(0.66 n)) records, and in the scan window, the most recent
\* 30 records.
C12_WindowsDisjoint ==
  (DetectorRebuilt /\ Len(Loaded) >= 14) =>
    \A n \in 1..Len(Loaded) :
      ~(n <= Len(BaselineRecords(Loaded)) /\ InLast30(n))

\* the read just served is a listing of alerts
AlertsListed == seen # <<>> /\ seen[1].what \in {"anomalies", "recent"}

\* the stored alerts a listing with severity argument sev ranges over: all
\* of them when no filter (or an empty one) is given
MatchIdx(sev) ==
  {p \in 1..Len(anomalies) :
     sev \in {NoFilter, Some("")} \/ anomalies[p].severity = sev[1]}

\* C13: a listing returns the first `limit` stored alerts of the requested
\* severity, in stored order (the filter comes before the limit); after a
\* completed rebuild that order is newest first.
C13_Result ==
  AlertsListed =>
    LET r == seen[1]
        idx == MatchIdx(r.severity)
        rank(p) == Cardinality({q \in idx : q <= p})
    IN  /\ Len(r.value) = Min(r.limit, Cardinality(idx))
        /\ \A p \in idx : rank(p) <= r.limit => r.value[rank(p)] = anomalies[p]
        /\ a_status = "ok" =>
             \A x \in 1..(Len(r.value) - 1) :
               r.value[x].timestamp >= r.value[x + 1].timestamp

\* C13: no listing changes the stored alerts.
C13_Unchanged ==
  [][(seen' # <<>> /\ seen'[1].what \in {"anomalies", "recent"})
       => anomalies' = anomalies]_vars

AlertsDated(day, severity) ==
  Cardinality({x \in 1..Len(anomalies) :
                 anomalies[x].timestamp = day /\ anomalies[x].severity = severity})

\* entry e of a timeline over `days` days ending on day `end` is the entry
\* of its calendar day, with the counts of the stored alerts of that day
EntryOfDay(entry, e, days, end) ==
  LET day == end - (days - e)
  IN  /\ entry.date = strftime(day)
      /\ entry.info = AlertsDated(day, "info")
      /\ entry.warning = AlertsDated(day, "warning")
      /\ entry.critical = AlertsDated(day, "critical")
      /\ entry.total = entry.info + entry.warning + entry.critical

\* C14: get_anomaly_timeline(days) returns `days` entries, one per calendar
\* day of the trailing `days` days ending today (the day the call began or
\* the day it returned), in ascending order, each with the counts of the
\* stored alerts of that day by severity and their total.
C14_Timeline ==
  (seen # <<>> /\ seen[1].what = "timeline") =>
    /\ Len(seen[1].value) = seen[1].days
    /\ \E end \in {seen[1].today, seen[1].today + 1} :
         \A e \in 1..seen[1].days :
           EntryOfDay(seen[1].value[e], e, seen[1].days, end)

\* the read just served is a health score
ScoreServed == seen # <<>> /\ seen[1].what = "score"

\* the stored alerts dated within the 7 days before the clock reading of the
\* read just served
Trailing7 ==
  {x \in 1..Len(anomalies) :
     \/ anomalies[x].timestamp > seen[1].today - 7
     \/ anomalies[x].timestamp = seen[1].today - 7 /\ seen[1].exact}

\* 15 critical + 8 warning + 3 info over those alerts
Deduction ==
  15 * Cardinality({x \in Trailing7 : anomalies[x].severity = "critical"})
  + 8 * Cardinality({x \in Trailing7 : anomalies[x].severity = "warning"})
  + 3 * Cardinality({x \in Trailing7 : anomalies[x].severity = "info"})

\* the metrics whose alerts a category counts
CategoryMetrics(category) ==
  CASE category = "Sleep" -> {"sleep_duration", "sleep_quality"}
    [] category = "Cardiovascular" -> {"resting_hr", "hrv"}
    [] category = "Activity" -> {"steps"}
    [] category = "Wellness" -> {"stress_score", "energy_level"}

\* max(0, 100 - 10 alerts of the category)
SubScore(category) ==
  LET n == Cardinality({x \in Trailing7 :
                          anomalies[x].title \in CategoryMetrics(category)})
  IN  IF 10 * n >= 100 THEN 0 ELSE 100 - 10 * n

\* 20 (0.25 (sum of sub-scores) - 0.3 deduction)
Score20 ==
  5 * (SubScore("Sleep") + SubScore("Cardiovascular") + SubScore("Activity")
       + SubScore("Wellness"))
  - 6 * Deduction

\* C15: every sub-score is max(0, 100 - 10 alerts of its category) over the
\* alerts of the trailing 7 days, and the overall score is the integer part
\* of 0.25 (sum of sub-scores) - 0.3 (15 critical + 8 warning + 3 info),
\* clamped to 0..100; it is 100 when no alert is in the trailing 7 days.
C15_HealthScore ==
  ScoreServed =>
    LET r == seen[1].value
    IN  /\ \A c \in Categories :
             r.components[c] = SubScore(c) /\ r.components[c] \in 0..100
        /\ r.overall_score \in 0..100
        /\ Score20 <= 0 => r.overall_score = 0
        /\ Score20 >= 2000 => r.overall_score = 100
        /\ (Score20 > 0 /\ Score20 < 2000) =>
             /\ 20 * r.overall_score <= Score20
             /\ Score20 < 20 * (r.overall_score + 1)
        /\ Trailing7 = {} => r.overall_score = 100

\* a score strictly between 0 and 100 that is not a whole number before the
\* integer part is taken, with a sub-score below 100
C15_Witness ==
  /\ ScoreServed
  /\ seen[1].value.overall_score \in 1..99
  /\ Score20 % 20 # 0
  /\ \E c \in Categories : seen[1].value.components[c] \in 1..99

(***************************************************************************)
(* The single spike, end to end.                                           *)
(***************************************************************************)
\* the scanned records in which metric m has the value 10
SpikesOf(m) == {n \in 1..Len(Scanned) : Field(Scanned[n], m) = Some(10)}

\* metric m has baseline mean 7.0 and std_dev 1.0, exactly one scanned record
\* has the value 10.0 and every other scanned value has z < 1.5
SingleSpike(m) ==
  /\ m \in DOMAIN baselines
  /\ baselines[m].mean = 700 /\ baselines[m].std_dev = 100
  /\ Cardinality(SpikesOf(m)) = 1
  /\ \A n \in 1..Len(Scanned) \ SpikesOf(m) :
       /\ Field(Scanned[n], m) # Absent
       /\ 10 * Abs(100 * Field(Scanned[n], m)[1] - 700) < 15 * 100

\* C16: with baseline mean 7.0 and std_dev 1.0 and one scanned record of
\* value 10.0 among values of z < 1.5, the finished scan holds exactly one
\* alert of the metric: dated that record, critical, consecutive_days 1,
\* deviation_percent 42.9.
C16_SingleSpike ==
  ScanComplete =>
    \A m \in ScanMetrics :
      SingleSpike(m) =>
        LET mine == {x \in 1..Len(anomalies) : anomalies[x].title = m}
            n == CHOOSE n \in SpikesOf(m) : TRUE
        IN  /\ Cardinality(mine) = 1
            /\ \A x \in mine :
                 /\ anomalies[x].timestamp = strptime(Scanned[n].date[1])
                 /\ anomalies[x].severity = "critical"
                 /\ anomalies[x].consecutive_days = 1
                 /\ anomalies[x].deviation_percent = 429

\* the 90-day record set with the spike on day 85 was scanned
C16_Witness ==
  /\ ScanComplete
  /\ Len(Loaded) = 90
  /\ Len(Scanned) = 30
  /\ SingleSpike("sleep_duration")
  /\ Field(Loaded[85], "sleep_duration") = Some(10)
  /\ \E x \in 1..Len(anomalies) :
       /\ anomalies[x].title = "sleep_duration"
       /\ anomalies[x].timestamp = strptime(Loaded[85].date[1])

(***************************************************************************)
(* Correlation engine (SpecEngine).                                        *)
(***************************************************************************)
\* the construction of the engine returned: every catalogue pair was
\* processed and the list sorted
EngineBuilt == pc = "idle" /\ c_status = "ok"

\* the catalogue pair an insight was created from
PairOf(c) ==
  CHOOSE n \in 1..Len(CORRELATION_PAIRS) :
    /\ CORRELATION_PAIRS[n].a = c.description.name_a
    /\ CORRELATION_PAIRS[n].b = c.description.name_b
    /\ (CORRELATION_PAIRS[n].offset > 0) = c.description.next_day

\* the aligned sample of catalogue pair n over the loaded records and its
\* sums
AlignedOf(n) ==
  AlignSeries(ExtractMetricSeries(LoadedC, CORRELATION_PAIRS[n].a),
              ExtractMetricSeries(LoadedC, CORRELATION_PAIRS[n].b),
              CORRELATION_PAIRS[n].offset)

SumsOf(n) == PearsonSums(AlignedOf(n).a, AlignedOf(n).b)

\* |r| >= c / q for r = cov(x, y) / (std(x) std(y)) with one normalisation
\* for the covariance and the deviations: r = sxy / sqrt(sxx syy)
PearsonAbsGe(p, c, q) ==
  ProdGe(q * Abs(p.sxy), q * Abs(p.sxy), c * p.sxx, c * p.syy)

\* round(r, 3) in thousandths
PearsonMilli(p) ==
  LET milli == CHOOSE t \in 0..1000 :
                 /\ PearsonAbsGe(p, 2 * t - 1, 2000) \/ t = 0
                 /\ t = 1000 \/ ~PearsonAbsGe(p, 2 * t + 1, 2000)
  IN  IF p.sxy < 0 THEN -milli ELSE milli

\* y = c - x or y = c + x at every aligned point
Mirrored(n) ==
  \E c \in 0..200 : \A x \in 1..Len(AlignedOf(n).a) :
    AlignedOf(n).b[x] = c - AlignedOf(n).a[x]

\* C17: the coefficient of every insight is the Pearson coefficient
\* r = cov(x, y) / (std(x) std(y)) of its aligned sample, with covariance and
\* deviations under the same normalisation; in particular y = 100 - x over
\* 20 aligned points gives -1.00, with confidence 0.33 and the description
\* "strong negative".
C17_Pearson ==
  EngineBuilt =>
    \A x \in 1..Len(correlations) :
      LET c == correlations[x]
          n == PairOf(c)
      IN  /\ c.correlation_coefficient = PearsonMilli(SumsOf(n))
          /\ Mirrored(n) /\ c.sample_size = 20 =>
               /\ c.correlation_coefficient = -1000
               /\ c.confidence = 33
               /\ c.description.strength = "strong"
               /\ c.description.direction = "negative"

\* the insights of `correlations` created from catalogue pair n
InsightsOf(n) ==
  {x \in 1..Len(correlations) : PairOf(correlations[x]) = n}

\* catalogue pair n reached the Pearson step: both series have values and
\* the aligned sample has at least 14 points
EnoughAligned(n) ==
  /\ ExtractMetricSeries(LoadedC, CORRELATION_PAIRS[n].a) # <<>>
  /\ ExtractMetricSeries(LoadedC, CORRELATION_PAIRS[n].b) # <<>>
  /\ Len(AlignedOf(n).a) >= 14

\* |r| >= 3/10 for the r of line 99, covariance / (std_x * std_y) with the
\* covariance of line 91 and statistics.stdev, and r = 0 when a deviation
\* is 0:  10 |sxy| (n - 1) >= 3 n sqrt(sxx syy)
AtLeastThreshold(p) ==
  /\ p.sxx # 0 /\ p.syy # 0
  /\ ProdGe(10 * Abs(p.sxy) * (p.n - 1), 10 * Abs(p.sxy) * (p.n - 1),
            3 * p.n * p.sxx, 3 * p.n * p.syy)

C19_MinimumSample ==
  /\ \A x \in 1..Len(correlations) : correlations[x].sample_size >= 14
  /\ EngineBuilt =>
       /\ \A n \in 1..Len(CORRELATION_PAIRS) :
            Len(AlignedOf(n).a) < 14 => InsightsOf(n) = {}
       /\ \A x \in 1..Len(correlations) :
            correlations[x].sample_size
              = Len(AlignedOf(PairOf(correlations[x])).a)

\* a build in which the next-day pair has 13 aligned points, a coefficient
\* above the threshold, and no insight
C19_Witness ==
  /\ EngineBuilt
  /\ \E n \in 1..Len(CORRELATION_PAIRS) :
       /\ CORRELATION_PAIRS[n].offset = 1
       /\ Len(AlignedOf(n).a) = 13
       /\ AtLeastThreshold(SumsOf(n))
       /\ InsightsOf(n) = {}

\* the entries of series_b dated `offset` days after the calendar day of
\* entry e
SameDay(e, series_b, offset) ==
  {x \in 1..Len(series_b) :
     /\ series_b[x].date # Absent
     /\ ValidDate(series_b[x].date[1])
     /\ strptime(series_b[x].date[1]) = strptime(e.date[1]) + offset}

\* the inner join of two series on the calendar day shifted by offset, in
\* the order of series_a
RECURSIVE CalendarJoin(_, _, _)
CalendarJoin(series_a, series_b, offset) ==
  IF series_a = <<>> THEN [a |-> <<>>, b |-> <<>>]
  ELSE LET e == Head(series_a)
           days == SameDay(e, series_b, offset)
           last == CHOOSE x \in days : \A y \in days : y <= x
           rest == CalendarJoin(Tail(series_a), series_b, offset)
       IN  IF days # {}
           THEN [a |-> <<e.value>> \o rest.a,
                 b |-> <<series_b[last].value>> \o rest.b]
           ELSE rest

\* catalogue pair n reached _align_series: both series have values
Joined(n) ==
  /\ ExtractMetricSeries(LoadedC, CORRELATION_PAIRS[n].a) # <<>>
  /\ ExtractMetricSeries(LoadedC, CORRELATION_PAIRS[n].b) # <<>>

\* C20: _align_series(A, B, offset) never raises and returns exactly the
\* pairs (A[d], B[d + offset days]) for the dates d of A for which
\* d + offset is a date of B, in the order of A, as two lists of equal
\* length.
C20_InnerJoin ==
  /\ c_status # "raised"
  /\ EngineBuilt =>
       \A n \in 1..Len(CORRELATION_PAIRS) :
         Joined(n) =>
           /\ Len(AlignedOf(n).a) = Len(AlignedOf(n).b)
           /\ AlignedOf(n)
                = CalendarJoin(
                    ExtractMetricSeries(LoadedC, CORRELATION_PAIRS[n].a),
                    ExtractMetricSeries(LoadedC, CORRELATION_PAIRS[n].b),
                    CORRELATION_PAIRS[n].offset)

\* an aligned series of catalogue pair n has zero variance
ZeroVariance(n) == SumsOf(n).sxx = 0 \/ SumsOf(n).syy = 0

\* C21: a catalogue pair of which an aligned series has zero variance gets
\* correlation 0 and is never retained, and the computation raises nothing:
\* a build only fails where _align_series meets a record without a date.
C21_DegenerateVariance ==
  /\ EngineBuilt =>
       \A n \in 1..Len(CORRELATION_PAIRS) :
         Joined(n) /\ ZeroVariance(n) =>
           /\ InsightsOf(n) = {}
           /\ CorrMilli(SumsOf(n)) = 0
  /\ c_status = "raised" =>
       \E n \in 1..Len(CORRELATION_PAIRS) :
         /\ Joined(n)
         /\ AlignRaises(ExtractMetricSeries(LoadedC, CORRELATION_PAIRS[n].a))

\* a completed build over 14 aligned points of which one series never
\* changes while the other does
C21_Witness ==
  /\ EngineBuilt
  /\ \E n \in 1..Len(CORRELATION_PAIRS) :
       /\ Joined(n) /\ Len(AlignedOf(n).a) >= 14
       /\ SumsOf(n).syy = 0 /\ SumsOf(n).sxx # 0
       /\ InsightsOf(n) = {}

(***************************************************************************)
(* The correlation engine in service (SpecInsights).                       *)
(***************************************************************************)
\* the read just served is a listing of insights
InsightsListed == seen # <<>> /\ seen[1].what \in {"correlations", "top"}

\* the construction or the last recalculate_correlations returned
CorrelationsReturned == c_status = "ok" /\ pc = "idle"

\* C22: after construction and after every recalculate_correlations that
\* returned, the stored list is in non-increasing order of |coefficient|;
\* a listing returns the first `limit` stored insights.
C22_Sorted ==
  /\ CorrelationsReturned =>
       \A x \in 1..(Len(correlations) - 1) :
         Abs(correlations[x].correlation_coefficient)
           >= Abs(correlations[x + 1].correlation_coefficient)
  /\ InsightsListed =>
       /\ Len(seen[1].value) = Min(seen[1].limit, Len(correlations))
       /\ \A x \in 1..Len(seen[1].value) : seen[1].value[x] = correlations[x]

\* C22: no listing changes the stored insights.
C22_Unchanged ==
  [][(seen' # <<>> /\ seen'[1].what \in {"correlations", "top"})
       => correlations' = correlations]_vars

\* C22: the stored correlation list is sorted by |coefficient|
\* non-increasing after construction and after every
\* recalculate_correlations, and get_correlations(limit) and
\* get_top_correlations(limit) return its first `limit` elements without
\* changing it.
C22_Ordering == C22_Unchanged /\ []C22_Sorted

\* get_top_correlations(1) after a recalculation whose loop appended the
\* weaker insight first: the listing holds the stronger one only
C22_Witness ==
  /\ InsightsListed
  /\ CorrelationsReturned
  /\ op = "refresh"
  /\ seen[1].what = "top" /\ seen[1].limit = 1
  /\ Len(correlations) = 2
  /\ ~correlations[1].description.next_day = FALSE
  /\ correlations[2].description.next_day = FALSE
  /\ Abs(correlations[1].correlation_coefficient)
       > Abs(correlations[2].correlation_coefficient)
  /\ seen[1].value = <<correlations[1]>>

\* a record of the loaded set has no usable date: _align_series raises
DateMissing ==
  \E n \in 1..Len(CORRELATION_PAIRS) :
    AlignRaises(ExtractMetricSeries(LoadedC, CORRELATION_PAIRS[n].a))

\* C23: every retained insight has sample_size equal to the number n of
\* aligned points of its pair and confidence = min(1, n / 60) rounded to two
\* decimals: above 0, at most 1, equal to 1 from n = 60 on, and
\* non-decreasing in n.
C23_Confidence ==
  /\ \A x \in 1..Len(correlations) :
       LET c == correlations[x]
       IN  /\ c.confidence \in 1..100
           /\ c.sample_size >= 60 => c.confidence = 100
           /\ c.sample_size < 60 =>
                2 * Abs(100 * c.sample_size - 60 * c.confidence) <= 60
  /\ \A x, y \in 1..Len(correlations) :
       correlations[x].sample_size <= correlations[y].sample_size =>
         correlations[x].confidence <= correlations[y].confidence
  /\ EngineBuilt =>
       \A x \in 1..Len(correlations) :
         correlations[x].sample_size
           = Len(AlignedOf(PairOf(correlations[x])).a)
  /\ \A n \in 1..Len(CORRELATION_PAIRS) :
       (~DateMissing /\ EnoughAligned(n) /\ Retained(SumsOf(n))) =>
         /\ Confidence100(SumsOf(n)) \in 1..100
         /\ SumsOf(n).n >= 60 => Confidence100(SumsOf(n)) = 100

\* a build with an insight over 61 aligned points and one over 60, both with
\* confidence 1
C23_Witness ==
  /\ EngineBuilt
  /\ \E x, y \in 1..Len(correlations) :
       /\ correlations[x].sample_size = 61
       /\ correlations[y].sample_size = 60
       /\ correlations[x].confidence = 100
       /\ correlations[y].confidence = 100

\* _calculate_pearson(aligned_b, aligned_a): the sums of catalogue pair n
\* with the two arrays exchanged
SwappedSums(n) == PearsonSums(AlignedOf(n).b, AlignedOf(n).a)

\* C24: _calculate_pearson(x, y) and _calculate_pearson(y, x) yield the same
\* coefficient and the same confidence, for the aligned arrays of every
\* catalogue pair.
C24_Symmetry ==
  EngineBuilt =>
    \A n \in 1..Len(CORRELATION_PAIRS) :
      Joined(n) =>
        /\ CorrMilli(SumsOf(n)) = CorrMilli(SwappedSums(n))
        /\ Confidence100(SumsOf(n)) = Confidence100(SwappedSums(n))
        /\ Retained(SumsOf(n)) = Retained(SwappedSums(n))
        /\ \A x \in InsightsOf(n) :
             /\ correlations[x].correlation_coefficient
                  = CorrMilli(SwappedSums(n))
             /\ correlations[x].confidence = Confidence100(SwappedSums(n))

\* a retained pair whose two arrays differ in variance: the stored
\* coefficient is that of the exchanged arrays too
C24_Witness ==
  /\ EngineBuilt
  /\ \E n \in 1..Len(CORRELATION_PAIRS) :
       /\ Joined(n)
       /\ SumsOf(n).sxx # SumsOf(n).syy
       /\ \E x \in InsightsOf(n) :
            /\ correlations[x].correlation_coefficient \notin {0, 1000, -1000}
            /\ correlations[x].correlation_coefficient
                 = CorrMilli(SwappedSums(n))

(***************************************************************************)
(* Run lengths and coverage of the scan (SpecScan).                        *)
(***************************************************************************)
\* metric m is anomalous in scanned record n: it has a value there that is
\* evaluated with z >= 1.5
AnomalousDay(n, m) ==
  /\ Evaluated(n, m)
  /\ 10 * Dev100(n, m) >= 15 * baselines[m].std_dev

\* the number of consecutive scanned records ending with record n in each of
\* which metric m is anomalous
RunLengthAt(n, m) ==
  LET breaks == {y \in 1..n : ~AnomalousDay(y, m)}
      last == IF breaks = {} THEN 0
              ELSE CHOOSE y \in breaks : \A z \in breaks : z <= y
  IN  n - last

\* C25: the consecutive_days of every alert is the number of consecutive
\* scanned records, ending with the alert's record, in each of which its
\* metric was anomalous; a record in which the metric is absent, 0 or
\* non-anomalous breaks the run.
C25_RunLength ==
  ScanComplete =>
    \A n \in 1..Len(Scanned), m \in ScanMetrics :
      Scanned[n].date # Absent =>
        \A x \in AlertsOf(n, m) :
          anomalies[x].consecutive_days = RunLengthAt(n, m)

\* metric m has a value in scanned record n with z >= 1.5 against an
\* established baseline of non-zero std_dev
FarFromBaseline(n, m) ==
  /\ m \in DOMAIN baselines
  /\ baselines[m].std_dev # 0
  /\ Scanned[n].date # Absent
  /\ Field(Scanned[n], m) # Absent
  /\ 10 * Abs(100 * Field(Scanned[n], m)[1] - baselines[m].mean)
       >= 15 * baselines[m].std_dev

\* C26: for every metric that has a baseline (sleep_quality and energy_level
\* included) with non-zero std_dev, a scanned record whose value for the
\* metric has z >= 1.5 yields an alert for that metric.
C26_EveryBaselineScanned ==
  ScanComplete =>
    \A n \in 1..Len(Scanned), m \in Metrics :
      FarFromBaseline(n, m) => AlertsOf(n, m) # {}

(***************************************************************************)
(* Run-length counters across rebuilds (Spec).                             *)
(***************************************************************************)
\* the stored alerts of metric m
AlertsOfMetric(m) == {x \in 1..Len(anomalies) : anomalies[x].title = m}

\* C27: every scan starts with all counters at 0: after each rebuild the
\* oldest alert of every metric has consecutive_days = 1, and the alerts of
\* a completed rebuild are those of a scan of the last 30 loaded records
\* started from zero counters, whatever the rebuilds before it left.
C27_FreshCounters ==
  RebuildEnded =>
    /\ \A m \in ScanMetrics :
         \A x \in AlertsOfMetric(m) :
           (\A y \in AlertsOfMetric(m) :
              anomalies[x].timestamp <= anomalies[y].timestamp)
             => anomalies[x].consecutive_days = 1
    /\ a_status = "ok" =>
         anomalies
           = IF Len(Loaded) < 14 THEN <<>>
             ELSE SortNewestFirst(
                    DetectFrom(RecentRecords(Loaded), 1, ZeroTracker,
                               baselines).alerts)

\* a refresh over 32 records whose stress_score is anomalous in the record
\* just before the scan window and in the first record of it, after a
\* rebuild that had counted runs: the alert of the first scanned record has
\* consecutive_days 1
C27_Witness ==
  /\ RebuildEnded
  /\ a_status = "ok"
  /\ op = "refresh"
  /\ Len(Loaded) > 30
  /\ Field(Loaded[Len(Loaded) - 30], "stress_score")
       = Field(Loaded[Len(Loaded) - 29], "stress_score")
  /\ \E y \in 1..Len(old_anomalies) : old_anomalies[y].consecutive_days >= 2
  /\ \E x \in AlertsOfMetric("stress_score") :
       /\ anomalies[x].timestamp
            = strptime(Loaded[Len(Loaded) - 29].date[1])
       /\ anomalies[x].consecutive_days = 1

(***************************************************************************)
(* The alert invariant (SpecScan).                                         *)
(***************************************************************************)
SeverityRank(severity) ==
  CASE severity = "info" -> 1
    [] severity = "warning" -> 2
    [] severity = "critical" -> 3

\* the class of the z-score of alert a alone: info for 1.5 <= z < 2.0,
\* warning for 2.0 <= z < 2.5, critical from 2.5 on
RawClass(a) ==
  LET s == baselines[a.title].std_dev
      d == Abs(100 * a.current_value - baselines[a.title].mean)
  IN  IF 10 * d >= 25 * s THEN "critical"
      ELSE IF 10 * d >= 20 * s THEN "warning"
      ELSE "info"

\* C28: in every state of the detector, every alert has
\* consecutive_days >= 1, an info alert has consecutive_days <= 2, a warning
\* alert of a raw warning day has consecutive_days <= 4, and the emitted
\* severity is never below the raw class of the day nor critical for a raw
\* info day.
C28_AlertInvariant ==
  \A x \in 1..Len(EmittedAlerts) :
    LET a == EmittedAlerts[x]
    IN  /\ a.consecutive_days >= 1
        /\ a.severity = "info" => a.consecutive_days <= 2
        /\ (a.severity = "warning" /\ RawClass(a) = "warning")
             => a.consecutive_days <= 4
        /\ SeverityRank(a.severity) >= SeverityRank(RawClass(a))
        /\ RawClass(a) = "info" => a.severity # "critical"

\* a finished scan with a fifth consecutive info-range day emitted as
\* warning and a second one emitted as info
C28_Witness ==
  /\ ScanComplete
  /\ \E x \in 1..Len(anomalies) :
       /\ RawClass(anomalies[x]) = "info"
       /\ anomalies[x].consecutive_days = 5
       /\ anomalies[x].severity = "warning"
  /\ \E x \in 1..Len(anomalies) :
       /\ anomalies[x].severity = "info"
       /\ anomalies[x].consecutive_days = 2

(***************************************************************************)
(* Refresh consistency (Spec).                                             *)
(***************************************************************************)
\* the record set data_service serves
Served == Records(d_cache)

\* main.refresh_data has returned {"status": "success"}: none of the three
\* calls raised
RefreshSucceeded ==
  /\ pc = "idle"
  /\ op = "refresh"
  /\ a_status = "ok"
  /\ c_status = "ok"

\* what the data service serves is what the record store holds now
ServedIsCurrent == Served = Records(LoadDataOrEmpty(d_cache, store))

\* C29: after a refresh that returned successfully, the detector's baselines
\* and alerts and the engine's correlations are those derived from the record
\* set the data service serves, also when the record store has become
\* missing or unreadable since the previous load.
C29_RefreshConsistency ==
  (RefreshSucceeded /\ ServedIsCurrent) =>
    /\ Loaded = Served
    /\ LoadedC = Served
    /\ baselines = CalculateBaselines(Served, NoBaselines)
    /\ anomalies
         = DetectAnomalies(Served,
                           CalculateBaselines(Served, NoBaselines)).alerts
    /\ correlations = CalculateCorrelations(Served).insights

(***************************************************************************)
(* Coefficient range (SpecEngine).                                         *)
(***************************************************************************)
\* |correlation| <= 1 for the correlation of line 99:
\* (n - 1) |sxy| <= n sqrt(sxx syy)
WithinUnit(p) ==
  ProdGe(p.n * p.sxx, p.n * p.syy,
         (p.n - 1) * Abs(p.sxy), (p.n - 1) * Abs(p.sxy))

\* C30: for every catalogue pair with at least 14 aligned points the
\* coefficient of _calculate_pearson is within [-1, 1], the insight built
\* from it passes the validation of CorrelationInsight, so no rebuild stops
\* on it, and the list holds at most one insight per catalogue pair, at
\* most 9.
C30_CoefficientRange ==
  /\ \A n \in 1..Len(CORRELATION_PAIRS) :
       /\ (~DateMissing /\ EnoughAligned(n)) =>
            /\ WithinUnit(SumsOf(n))
            /\ Validates(CreateInsight(CORRELATION_PAIRS[n], SumsOf(n)))
       /\ Cardinality(InsightsOf(n)) <= 1
  /\ \A x \in 1..Len(correlations) : Validates(correlations[x])
  /\ c_status = "raised" => DateMissing
  /\ Len(correlations) <= 9

\* an engine built with an insight for each of the 9 catalogue pairs, the
\* strongest of them at 0.933
C30_Witness ==
  /\ EngineBuilt
  /\ Len(correlations) = 9
  /\ \A n \in 1..Len(CORRELATION_PAIRS) : Cardinality(InsightsOf(n)) = 1
  /\ correlations[1].correlation_coefficient = 933

====
